---- MODULE Spec2Model ----
(***************************************************************************)
(* CrossPad PC audio core: the lock-free SPSC ring buffer                  *)
(* (src/audio/AudioRingBuffer.hpp) and the mixing engine                   *)
(* (apps/mixer/AudioMixerEngine.cpp).                                      *)
(***************************************************************************)
EXTENDS Integers, Sequences, FiniteSets, TLC

(***************************************************************************)
(* Bounds of the model.                                                    *)
(***************************************************************************)
\* largest capacity passed to resize
MaxCap == 4
\* largest count passed to one write or read call
MaxCount == 5
\* total number of elements the producer gets accepted in one run
MaxTotal == 6
\* round-trip scenario: largest capacity and largest count
RtMaxCap == 8
RtMaxCount == 10
\* two threads: the capacity of the ring, and the largest count of one call
SpscCap == 4
SpscCount == 2
\* mixer: frames per chunk (MIXER_CHUNK_FRAMES, scaled down), control calls per run
ChunkFrames == 2
MaxCtl == 1
\* start() calls, stop() calls and sink closings in one behaviour
MaxCalls == 3

(***************************************************************************)
(* Program constants.                                                      *)
(***************************************************************************)
MIXER_NUM_INPUTS == 3
MIXER_NUM_OUTPUTS == 2
\* a volume v is held as the integer 32 * v, so 1.0f is 32; the volumes of the
\* model are multiples of 1/32, for which the float products of the code are exact
VolOne == 32
INT16_MAX == 32767
INT16_MIN == -32768

IN1 == 0
IN2 == 1
SYNTH == 2
OUT1 == 0
OUT2 == 1
Inputs == 0..(MIXER_NUM_INPUTS - 1)
Outputs == 0..(MIXER_NUM_OUTPUTS - 1)
\* interleaved stereo: sample 2*f is L of frame f, sample 2*f+1 is R
Samples == 0..(2 * ChunkFrames - 1)

VARIABLES
    \* ---- AudioRingBuffer, used from one thread at a time ----
    buffer_,      \* std::vector<T> buffer_, a function 0..capacity_-1 -> T
    capacity_,    \* size_t capacity_
    head_,        \* std::atomic<size_t> head_ (write position, never reduced)
    tail_,        \* std::atomic<size_t> tail_ (read position, never reduced)
    accepted,     \* every element write() accepted since the last resize/reset
    delivered,    \* every element read() handed out since the last resize/reset
    last,         \* the last call: its name, count, return value, positions before
    log,          \* the calls of the round-trip scenario, with their data
    \* ---- AudioRingBuffer, one producer thread and one consumer thread ----
    prod,         \* the producer inside write(): pc and the locals h, t, count, data
    cons,         \* the consumer inside read(): pc and the locals t, h, count, data
    \* ---- AudioMixerEngine ----
    routes_,      \* MixerRoute routes_[3][2]: enabled, volume
    channels_,    \* MixerChannel channels_[3]: volume, muted, soloed, peakL, peakR
    outputs_,     \* MixerOutputBus outputs_[2]: volume, muted, peakL, peakR
    running_,     \* std::atomic<bool> running_
    sinkOpen,     \* per output bus: pc_platform_get_audio_output(out) is there and open
    mx,           \* the mixing thread: pc and the locals of mixerThreadFunc
    obs,          \* what the mixing thread read and added in the current chunk
    ctlOps,       \* control calls made so far
    \* ---- start(), stop() and the mixing threads they launch ----
    threads,      \* the mixing threads: pc and the write-loop locals of each
    caller,       \* the application threads inside start() or stop()
    sunk,         \* per output bus: the frame its sink accepted last, as <<thread, frame>>
    sinkFull,     \* per output bus: the sink's ring has no room for a frame
    counts,       \* calls so far: start, stop, close
    \* ---- persistence ----
    file,         \* the mixer state file: missing, unparsable, or a document
    ctl,          \* the control threads inside a change-and-save handler
    \* ---- capture input ----
    capture       \* the IN1 source: present, open, frames got by the last read

ringVars == <<buffer_, capacity_, head_, tail_, accepted, delivered, last, log>>

spscVars == <<prod, cons>>

lifeVars == <<threads, caller, sunk, sinkFull, counts>>

persistVars == <<file, ctl>>

mixVars == <<routes_, channels_, outputs_, running_, sinkOpen, mx, obs, ctlOps,
             lifeVars, persistVars, capture>>

vars == <<buffer_, capacity_, head_, tail_, accepted, delivered, last, log, prod, cons,
          routes_, channels_, outputs_, running_, sinkOpen, mx, obs, ctlOps,
          threads, caller, sunk, sinkFull, counts, file, ctl, capture>>

(***************************************************************************)
(* Helpers.                                                                *)
(***************************************************************************)
Min(a, b) == IF a < b THEN a ELSE b

\* the first n elements of a 0-indexed array, as a sequence
ArrToSeq(arr, n) == [k \in 1..n |-> arr[k - 1]]

\* the producer's source array: count fresh stamps following the n accepted
\* so far (a retry offers again what was not accepted)
SrcData(n, count) == [k \in 0..(count - 1) |-> n + 1 + k]

\* the consumer's destination array before the call (zero-initialised)
DstData(count) == [k \in 0..(count - 1) |-> 0]

IsPrefix(s, t) == Len(s) <= Len(t) /\ \A k \in 1..Len(s) : s[k] = t[k]

(***************************************************************************)
(* AudioMixerEngine: state and arithmetic                                  *)
(***************************************************************************)
ZeroBuf == [s \in Samples |-> 0]

SetMax(S) == CHOOSE x \in S : \A y \in S : y <= x

\* (int16_t)x: the value modulo 2^16, in [-32768, 32767]
Int16Cast(x) == ((x + 32768) % 65536) - 32768

\* v < 0 ? (int16_t)-v : (int16_t)v
AbsInt16(v) == IF v < 0 THEN Int16Cast(-v) ELSE Int16Cast(v)

\* computePeak, one side (0 = L, 1 = R): max starts at 0 and takes every
\* larger abs value
ComputePeak(buf, side) ==
    SetMax({0} \cup {AbsInt16(buf[2 * f + side]) : f \in 0..(ChunkFrames - 1)})

\* static_cast<int32_t>(num / den): truncation toward zero
Trunc(num, den) == IF num >= 0 THEN num \div den ELSE -((-num) \div den)

\* the conversion rounding down instead of toward zero
GainFPFloor(chVol, routeVol) == (chVol * routeVol * 256) \div (VolOne * VolOne)

\* gainFP = static_cast<int32_t>(chVol * routeVol * 256.0f)
GainFP(chVol, routeVol) == Trunc(chVol * routeVol * 256, VolOne * VolOne)

\* outGainFP = static_cast<int32_t>(outVol * 256.0f)
OutGainFP(outVol) == Trunc(outVol * 256, VolOne)

\* (static_cast<int32_t>(sample) * gainFP) >> 8
Scaled(sample, gainFP) == (sample * gainFP) \div 256

\* if (s > 32767) s = 32767; if (s < -32768) s = -32768
Clamp16(x) == IF x > INT16_MAX THEN INT16_MAX ELSE IF x < INT16_MIN THEN INT16_MIN ELSE x

\* sL = outMuted ? 0 : (outAccum * outGainFP) >> 8, then clamped
OutSample(acc, outMuted, outGainFP) ==
    Clamp16(IF outMuted THEN 0 ELSE Scaled(acc, outGainFP))

\* the channel test without the mute check, and without the solo check
ChannelActiveNoMute(muted, solo, anySoloed) == ~(anySoloed /\ ~solo)
ChannelActiveNoSolo(muted, solo, anySoloed) == ~muted

\* if (muted) continue; if (anySoloed && !solo) continue;
ChannelActive(muted, solo, anySoloed) == ~muted /\ ~(anySoloed /\ ~solo)

\* the route loop without the enabled check
RouteOpenAlways(enabled) == TRUE

\* if (!routes_[ch][out].enabled.load()) continue;
RouteOpen(enabled) == enabled

\* the member initialisers of MixerRoute, MixerChannel, MixerOutputBus
NewRoute == [enabled |-> FALSE, volume |-> VolOne]
NewChannel == [volume |-> VolOne, muted |-> FALSE, soloed |-> FALSE, peakL |-> 0, peakR |-> 0]
NewOutput == [volume |-> VolOne, muted |-> FALSE, peakL |-> 0, peakR |-> 0]

\* the mixing thread before it is started
NoThread ==
    [pc |-> "none", i |-> 0, inBuf |-> [c \in Inputs |-> ZeroBuf], anySoloed |-> FALSE,
     outAccum |-> [o \in Outputs |-> ZeroBuf], outBuf |-> ZeroBuf,
     offset |-> 0, remaining |-> 0]

\* nothing read, nothing added yet in this chunk
NoObs ==
    [saw |-> [c \in Inputs |-> [muted |-> FALSE, solo |-> FALSE, chVol |-> 0,
                                 enabled |-> [o \in Outputs |-> FALSE],
                                 routeVol |-> [o \in Outputs |-> 0]]],
     mixed |-> {},
     add |-> [c \in Inputs |-> [o \in Outputs |-> ZeroBuf]],
     outSaw |-> [o \in Outputs |-> [muted |-> FALSE, volume |-> 0]],
     outDone |-> {},
     outBuf |-> [o \in Outputs |-> ZeroBuf],
     dirty |-> FALSE]

\* the application threads that call start() and stop()
Callers == {"A", "B"}
\* the mixing threads followed at one time; a terminated one makes room
ThreadIds == {"T1", "T2"}

\* a mixing thread that was not launched yet
NoMixThread ==
    [pc |-> "none", out |-> 0, offset |-> 0, remaining |-> 0, stalled |-> FALSE]

\* what a sink that accepted nothing yet has as its last frame
NoFrame == <<"none", 0>>

\* an application thread outside start() and stop()
NoCall == [pc |-> "idle"]

\* the mixer state file before anything was saved
NoFile == [kind |-> "missing"]

\* the threads that deliver control-surface events: the GUI thread and the
\* thread that delivers pad presses
CtlThreads == {"gui", "pad"}

\* no control-surface event being handled, no loadState() call made yet
NoCtl ==
    [th |-> [t \in CtlThreads |-> [pc |-> "idle", snap |-> << >>]],
     did |-> "none"]

\* no capture device: pc_platform_get_audio_input(0) gives nullptr
NoCapture == [present |-> FALSE, open |-> FALSE, got |-> 0, from |-> 0, frames |-> {}]

\* no mixing thread, no call in progress, nothing delivered or saved yet
AroundNew ==
    /\ threads = [t \in ThreadIds |-> NoMixThread]
    /\ caller = [c \in Callers |-> NoCall]
    /\ sunk = [o \in Outputs |-> NoFrame]
    /\ sinkFull = [o \in Outputs |-> FALSE]
    /\ counts = [start |-> 0, stop |-> 0, close |-> 0]
    /\ file = NoFile
    /\ ctl = NoCtl
    /\ capture = NoCapture

\* AudioMixerEngine() = default
EngineNew ==
    /\ routes_ = [c \in Inputs |-> [o \in Outputs |-> NewRoute]]
    /\ channels_ = [c \in Inputs |-> NewChannel]
    /\ outputs_ = [o \in Outputs |-> NewOutput]
    /\ running_ = FALSE
    /\ sinkOpen = [o \in Outputs |-> FALSE]
    /\ mx = NoThread
    /\ obs = NoObs
    /\ ctlOps = 0

\* setDefaults(): what it stores in routes_, channels_ and outputs_
DefaultRoutes ==
    [c \in Inputs |-> [o \in Outputs |->
        [enabled |-> (c = SYNTH /\ o = OUT1), volume |-> VolOne]]]
DefaultChannels(chs) ==
    [c \in Inputs |-> [chs[c] EXCEPT !.volume = VolOne, !.muted = FALSE, !.soloed = FALSE]]
DefaultOutputs(outs) ==
    [o \in Outputs |-> [outs[o] EXCEPT !.volume = VolOne, !.muted = FALSE]]

(***************************************************************************)
(* AudioRingBuffer<T>                                                      *)
(***************************************************************************)
\* 2^k modulo c
RECURSIVE PowMod(_, _)
PowMod(k, c) == IF k = 0 THEN 1 % c ELSE (2 * PowMod(k - 1, c)) % c

\* x % c as size_t arithmetic computes it: a negative x has wrapped to
\* x + 2^64 before the division
SizeMod(x, c) == IF x >= 0 THEN x % c ELSE ((x % c) + PowMod(64, c)) % c

\* available(): (h - t + capacity_) % capacity_
available == SizeMod(head_ - tail_ + capacity_, capacity_)

\* space(): capacity_ - 1 - available()
space == capacity_ - 1 - available

\* write() without the reserved slot
WriteCountNoReserve(h, t, count) ==
    LET avail == capacity_ - SizeMod(h - t + capacity_, capacity_)
    IN  IF count > avail THEN avail ELSE count

\* the count write() settles on after loading h and t:
\*   avail = capacity_ - 1 - ((h - t + capacity_) % capacity_); if (count > avail) count = avail
WriteCount(h, t, count) ==
    LET avail == capacity_ - 1 - SizeMod(h - t + capacity_, capacity_)
    IN  IF count > avail THEN avail ELSE count

\* read() that trusts the caller's count
ReadCountUnchecked(t, h, count) == count

\* the count read() settles on after loading t and h:
\*   avail = (h - t + capacity_) % capacity_; if (count > avail) count = avail
ReadCount(t, h, count) ==
    LET avail == SizeMod(h - t + capacity_, capacity_)
    IN  IF count > avail THEN avail ELSE count

\* first = (pos + count <= capacity_) ? count : (capacity_ - pos)
FirstPart(pos, count) ==
    IF pos + count <= capacity_ THEN count ELSE capacity_ - pos

\* where element i of a write of count elements starting at pos goes:
\*   memcpy(buffer_.data() + pos, data, first)
\*   memcpy(buffer_.data(), data + first, count - first)
WriteSlot(pos, first, i) == IF i < first THEN pos + i ELSE i - first

\* which slot the i-th element copy of a read starting at pos takes:
\*   memcpy(data, buffer_.data() + pos, first)
\*   memcpy(data, buffer_.data() + first, count - first)
ReadSlot(pos, first, i) == IF i < first THEN pos + i ELSE first + (i - first)

\* and which element of the caller's array it fills
ReadDst(first, i) == IF i < first THEN i ELSE i - first

\* the memcpy calls of write(), element by element from element i on
RECURSIVE WriteCopy(_, _, _, _, _, _)
WriteCopy(buf, data, pos, first, i, count) ==
    IF i >= count THEN buf
    ELSE WriteCopy([buf EXCEPT ![WriteSlot(pos, first, i)] = data[i]],
                   data, pos, first, i + 1, count)

\* the memcpy calls of read(), element by element from element i on
RECURSIVE ReadCopy(_, _, _, _, _, _)
ReadCopy(buf, data, pos, first, i, count) ==
    IF i >= count THEN data
    ELSE ReadCopy(buf, [data EXCEPT ![ReadDst(first, i)] = buf[ReadSlot(pos, first, i)]],
                  pos, first, i + 1, count)

\* what one call leaves for the caller: its return value, and the positions
\* it started from
Call(op, count, ret) ==
    [op |-> op, count |-> count, ret |-> ret, head |-> head_, tail |-> tail_]

Idle == [pc |-> "idle", count |-> 0, h |-> 0, t |-> 0, n |-> 0, i |-> 0, data |-> << >>]

\* AudioRingBuffer(size_t capacity = 0)
RingInit ==
    /\ prod = Idle
    /\ cons = Idle
    /\ EngineNew
    /\ AroundNew
    /\ buffer_ = << >>
    /\ capacity_ = 0
    /\ head_ = 0
    /\ tail_ = 0
    /\ accepted = << >>
    /\ delivered = << >>
    /\ last = Call("new", 0, 0)
    /\ log = << >>

\* void resize(size_t capacity)
Resize(c) ==
    /\ buffer_' = [k \in 0..(c - 1) |-> IF k < capacity_ THEN buffer_[k] ELSE 0]
    /\ capacity_' = c
    /\ head_' = 0
    /\ tail_' = 0
    /\ accepted' = << >>
    /\ delivered' = << >>
    /\ last' = Call("resize", c, 0)

\* reset() that forgets the read position
ResetHeadOnly ==
    /\ head_' = 0
    /\ accepted' = << >>
    /\ delivered' = << >>
    /\ last' = Call("reset", 0, 0)
    /\ UNCHANGED <<buffer_, capacity_, tail_>>

\* void reset()
Reset ==
    /\ head_' = 0
    /\ tail_' = 0
    /\ accepted' = << >>
    /\ delivered' = << >>
    /\ last' = Call("reset", 0, 0)
    /\ UNCHANGED <<buffer_, capacity_>>

\* size_t write(const T* data, size_t count)
Write(count) ==
    LET data == SrcData(Len(accepted), count)
        n    == IF capacity_ = 0 THEN 0 ELSE WriteCount(head_, tail_, count)
        taken == ArrToSeq(data, n)
    IN  /\ IF n = 0
             THEN UNCHANGED <<buffer_, head_>>
             ELSE /\ buffer_' = WriteCopy(buffer_, data, head_ % capacity_,
                                           FirstPart(head_ % capacity_, n), 0, n)
                  /\ head_' = head_ + n
        /\ accepted' = accepted \o taken
        /\ last' = Call("write", count, n)
        /\ UNCHANGED <<capacity_, tail_, delivered>>

\* size_t read(T* data, size_t count)
Read(count) ==
    LET n    == IF capacity_ = 0 THEN 0 ELSE ReadCount(tail_, head_, count)
        out  == IF n = 0 THEN DstData(count)
                ELSE ReadCopy(buffer_, DstData(count), tail_ % capacity_,
                              FirstPart(tail_ % capacity_, n), 0, n)
        got  == ArrToSeq(out, n)
    IN  /\ IF n = 0
             THEN UNCHANGED tail_
             ELSE tail_' = tail_ + n
        /\ delivered' = delivered \o got
        /\ last' = Call("read", count, n)
        /\ UNCHANGED <<buffer_, capacity_, head_, accepted>>

DoResize == \E c \in 0..MaxCap : Resize(c) /\ UNCHANGED <<log, spscVars, mixVars>>
DoReset == Reset /\ UNCHANGED <<log, spscVars, mixVars>>
DoWrite ==
    /\ Len(accepted) < MaxTotal
    /\ \E count \in 0..MaxCount : Write(count) /\ UNCHANGED <<log, spscVars, mixVars>>
DoRead == \E count \in 0..MaxCount : Read(count) /\ UNCHANGED <<log, spscVars, mixVars>>

\* ---- the round trip: resize, write, write again, read ----
Entry(op, count, ret, data) == [op |-> op, count |-> count, ret |-> ret, data |-> data]

RtResize ==
    /\ log = << >>
    /\ \E c \in 1..RtMaxCap :
          /\ Resize(c)
          /\ log' = <<Entry("resize", c, 0, << >>)>>
          /\ UNCHANGED <<spscVars, mixVars>>

RtWrite ==
    /\ Len(log) \in {1, 2}
    /\ \E count \in 0..RtMaxCount :
          /\ Write(count)
          /\ log' = Append(log, Entry("write", count, last'.ret,
                                      ArrToSeq(SrcData(Len(accepted), count), count)))
          /\ UNCHANGED <<spscVars, mixVars>>

RtRead ==
    /\ Len(log) = 3
    /\ \E count \in 0..RtMaxCount :
          /\ Read(count)
          /\ log' = Append(log, Entry("read", count, last'.ret,
                                      SubSeq(delivered', Len(delivered) + 1, Len(delivered'))))
          /\ UNCHANGED <<spscVars, mixVars>>

RtNext ==
    \/ RtResize
    \/ RtWrite
    \/ RtRead

SpecRoundTrip == RingInit /\ [][RtNext]_vars

\* ---- one producer thread in write(), one consumer thread in read() ----
\* Every atomic load, every element copy and every atomic store is one step.

\* write(data, count) is entered: if (capacity_ == 0) return 0
PCall ==
    /\ prod.pc = "idle"
    /\ Len(accepted) < MaxTotal
    /\ \E count \in 1..SpscCount :
          IF capacity_ = 0
            THEN /\ last' = Call("write", count, 0)
                 /\ UNCHANGED prod
            ELSE /\ prod' = [Idle EXCEPT !.pc = "loadHead", !.count = count,
                                         !.data = SrcData(Len(accepted), count)]
                 /\ UNCHANGED last
    /\ UNCHANGED <<buffer_, capacity_, head_, tail_, accepted, delivered, log, cons, mixVars>>

\* const size_t h = head_.load(relaxed)
PLoadHead ==
    /\ prod.pc = "loadHead"
    /\ prod' = [prod EXCEPT !.pc = "loadTail", !.h = head_]
    /\ UNCHANGED <<buffer_, capacity_, head_, tail_, accepted, delivered, last, log, cons, mixVars>>

\* const size_t t = tail_.load(acquire); count = min(count, avail); if (count == 0) return 0
PLoadTail ==
    /\ prod.pc = "loadTail"
    /\ LET n == WriteCount(prod.h, tail_, prod.count)
       IN  IF n = 0
             THEN /\ prod' = Idle
                  /\ last' = Call("write", prod.count, 0)
             ELSE /\ prod' = [prod EXCEPT !.pc = "copy", !.t = tail_, !.n = n, !.i = 0]
                  /\ UNCHANGED last
    /\ UNCHANGED <<buffer_, capacity_, head_, tail_, accepted, delivered, log, cons, mixVars>>

\* the slot the producer's copy of element i goes to
PSlot(i) ==
    LET pos == prod.h % capacity_
    IN  WriteSlot(pos, FirstPart(pos, prod.n), i)

\* one element of the memcpy calls of write()
PCopy ==
    /\ prod.pc = "copy"
    /\ prod.i < prod.n
    /\ buffer_' = [buffer_ EXCEPT ![PSlot(prod.i)] = prod.data[prod.i]]
    /\ prod' = [prod EXCEPT !.i = prod.i + 1]
    /\ UNCHANGED <<capacity_, head_, tail_, accepted, delivered, last, log, cons, mixVars>>

\* head_.store(h + count, release); return count
PStore ==
    /\ prod.pc = "copy"
    /\ prod.i = prod.n
    /\ head_' = prod.h + prod.n
    /\ accepted' = accepted \o ArrToSeq(prod.data, prod.n)
    /\ last' = Call("write", prod.count, prod.n)
    /\ prod' = Idle
    /\ UNCHANGED <<buffer_, capacity_, tail_, delivered, log, cons, mixVars>>

\* read(data, count) is entered: if (capacity_ == 0) return 0
CCall ==
    /\ cons.pc = "idle"
    /\ \E count \in 1..SpscCount :
          IF capacity_ = 0
            THEN /\ last' = Call("read", count, 0)
                 /\ UNCHANGED cons
            ELSE /\ cons' = [Idle EXCEPT !.pc = "loadTail", !.count = count,
                                         !.data = DstData(count)]
                 /\ UNCHANGED last
    /\ UNCHANGED <<buffer_, capacity_, head_, tail_, accepted, delivered, log, prod, mixVars>>

\* const size_t t = tail_.load(relaxed)
CLoadTail ==
    /\ cons.pc = "loadTail"
    /\ cons' = [cons EXCEPT !.pc = "loadHead", !.t = tail_]
    /\ UNCHANGED <<buffer_, capacity_, head_, tail_, accepted, delivered, last, log, prod, mixVars>>

\* const size_t h = head_.load(acquire); count = min(count, avail); if (count == 0) return 0
CLoadHead ==
    /\ cons.pc = "loadHead"
    /\ LET n == ReadCount(cons.t, head_, cons.count)
       IN  IF n = 0
             THEN /\ cons' = Idle
                  /\ last' = Call("read", cons.count, 0)
             ELSE /\ cons' = [cons EXCEPT !.pc = "copy", !.h = head_, !.n = n, !.i = 0]
                  /\ UNCHANGED last
    /\ UNCHANGED <<buffer_, capacity_, head_, tail_, accepted, delivered, log, prod, mixVars>>

\* the slot the consumer's i-th element copy reads
CSlot(i) ==
    LET pos == cons.t % capacity_
    IN  ReadSlot(pos, FirstPart(pos, cons.n), i)

\* one element of the memcpy calls of read()
CCopy ==
    /\ cons.pc = "copy"
    /\ cons.i < cons.n
    /\ LET pos == cons.t % capacity_
           first == FirstPart(pos, cons.n)
       IN  cons' = [cons EXCEPT !.i = cons.i + 1,
                                !.data[ReadDst(first, cons.i)] = buffer_[CSlot(cons.i)]]
    /\ UNCHANGED <<buffer_, capacity_, head_, tail_, accepted, delivered, last, log, prod, mixVars>>

\* tail_.store(t + count, release); return count
CStore ==
    /\ cons.pc = "copy"
    /\ cons.i = cons.n
    /\ tail_' = cons.t + cons.n
    /\ delivered' = delivered \o ArrToSeq(cons.data, cons.n)
    /\ last' = Call("read", cons.count, cons.n)
    /\ cons' = Idle
    /\ UNCHANGED <<buffer_, capacity_, head_, accepted, log, prod, mixVars>>

\* the ring after resize(SpscCap), before the two threads start
SpscInit ==
    /\ buffer_ = [k \in 0..(SpscCap - 1) |-> 0]
    /\ capacity_ = SpscCap
    /\ head_ = 0
    /\ tail_ = 0
    /\ accepted = << >>
    /\ delivered = << >>
    /\ last = Call("resize", SpscCap, 0)
    /\ log = << >>
    /\ prod = Idle
    /\ cons = Idle
    /\ EngineNew
    /\ AroundNew

SpscNext ==
    \/ PCall
    \/ PLoadHead
    \/ PLoadTail
    \/ PCopy
    \/ PStore
    \/ CCall
    \/ CLoadTail
    \/ CLoadHead
    \/ CCopy
    \/ CStore

SpecSpsc == SpscInit /\ [][SpscNext]_vars


(***************************************************************************)
(* AudioMixerEngine: the mixing thread                                     *)
(***************************************************************************)
\* ---- the input chunks of the model ----
\* one chunk of a source, by name
Pattern(name) ==
    [s \in Samples |->
        CASE name = "zero" -> 0
          [] name = "wave" -> IF s % 2 = 0 THEN 1000 * (1 + 2 * (((s \div 2) + 1) % 2))
                              ELSE -(300 * (1 + ((s \div 2) % 2)))
          [] name = "loud" -> IF s % 2 = 0 THEN INT16_MAX ELSE INT16_MIN
          [] name = "min"  -> INT16_MIN
          [] name = "odd"  -> IF s % 2 = 0 THEN 77 ELSE -5]

\* the chunks the three sources deliver together in one iteration: IN1, IN2, SYNTH
InputCases ==
    { <<"zero", "zero", "zero">>,
      <<"wave", "zero", "zero">>,
      <<"odd",  "zero", "wave">>,
      <<"zero", "min",  "zero">>,
      <<"zero", "zero", "min">>,
      <<"loud", "loud", "loud">> }

\* ---- the mixing thread, mixerThreadFunc ----
mixerOthers == <<buffer_, capacity_, head_, tail_, accepted, delivered, last, log, prod, cons,
                 lifeVars, persistVars, capture>>

\* while (running_.load()) { 1. read inputs
MxTop ==
    /\ mx.pc = "top"
    /\ IF running_
         THEN \E case \in InputCases :
                /\ mx' = [mx EXCEPT !.pc = "peaks",
                                    !.inBuf = [c \in Inputs |-> Pattern(case[c + 1])]]
                /\ obs' = NoObs
         ELSE /\ mx' = [mx EXCEPT !.pc = "exited"]
              /\ UNCHANGED obs
    /\ UNCHANGED <<routes_, channels_, outputs_, running_, sinkOpen, ctlOps>>
    /\ UNCHANGED mixerOthers

\* 2. computePeak(inBuf[ch], CHUNK, channels_[ch].peakL, channels_[ch].peakR) for every ch
MxPeaks ==
    /\ mx.pc = "peaks"
    /\ channels_' = [c \in Inputs |->
                        [channels_[c] EXCEPT !.peakL = ComputePeak(mx.inBuf[c], 0),
                                             !.peakR = ComputePeak(mx.inBuf[c], 1)]]
    /\ mx' = [mx EXCEPT !.pc = "solo", !.i = 0]
    /\ UNCHANGED <<routes_, outputs_, running_, sinkOpen, obs, ctlOps>>
    /\ UNCHANGED mixerOthers

\* 3. anySoloed = isAnySoloed(): one load of channels_[i].soloed per step;
\* 4. the accumulators are cleared when the loop is left
MxSolo ==
    /\ mx.pc = "solo"
    /\ IF channels_[mx.i].soloed
         THEN mx' = [mx EXCEPT !.pc = "mix", !.i = 0, !.anySoloed = TRUE,
                               !.outAccum = [o \in Outputs |-> ZeroBuf]]
         ELSE IF mx.i + 1 < MIXER_NUM_INPUTS
                THEN mx' = [mx EXCEPT !.i = mx.i + 1]
                ELSE mx' = [mx EXCEPT !.pc = "mix", !.i = 0, !.anySoloed = FALSE,
                                      !.outAccum = [o \in Outputs |-> ZeroBuf]]
    /\ UNCHANGED <<routes_, channels_, outputs_, running_, sinkOpen, obs, ctlOps>>
    /\ UNCHANGED mixerOthers

\* 5. route and mix, one channel per step
MxChannel ==
    /\ mx.pc = "mix"
    /\ LET ch     == mx.i
           muted  == channels_[ch].muted
           solo   == channels_[ch].soloed
           chVol  == channels_[ch].volume
           active == ChannelActive(muted, solo, mx.anySoloed)
           term   == [o \in Outputs |->
                        IF active /\ RouteOpen(routes_[ch][o].enabled)
                          THEN [s \in Samples |->
                                  Scaled(mx.inBuf[ch][s], GainFP(chVol, routes_[ch][o].volume))]
                          ELSE ZeroBuf]
       IN  /\ mx' = [mx EXCEPT
                        !.outAccum = [o \in Outputs |->
                                        [s \in Samples |-> mx.outAccum[o][s] + term[o][s]]],
                        !.i = IF ch + 1 < MIXER_NUM_INPUTS THEN ch + 1 ELSE 0,
                        !.pc = IF ch + 1 < MIXER_NUM_INPUTS THEN "mix" ELSE "out"]
           /\ obs' = [obs EXCEPT
                        !.saw[ch] = [muted |-> muted, solo |-> solo, chVol |-> chVol,
                                     enabled |-> [o \in Outputs |-> routes_[ch][o].enabled],
                                     routeVol |-> [o \in Outputs |-> routes_[ch][o].volume]],
                        !.mixed = obs.mixed \cup {ch},
                        !.add[ch] = term]
    /\ UNCHANGED <<routes_, channels_, outputs_, running_, sinkOpen, ctlOps>>
    /\ UNCHANGED mixerOthers

\* where the thread goes after the bus out is finished
AfterBus(m, out) ==
    IF out + 1 < MIXER_NUM_OUTPUTS
      THEN [m EXCEPT !.pc = "out", !.i = out + 1]
      ELSE [m EXCEPT !.pc = "pace", !.i = 0]

\* 6. apply output volume, clamp, store the peaks of bus out; then the sink
MxOutput ==
    /\ mx.pc = "out"
    /\ LET out      == mx.i
           outMuted == outputs_[out].muted
           outVol   == outputs_[out].volume
           buf      == [s \in Samples |->
                          OutSample(mx.outAccum[out][s], outMuted, OutGainFP(outVol))]
           m1       == [mx EXCEPT !.outBuf = buf]
       IN  /\ outputs_' = [outputs_ EXCEPT ![out].peakL = ComputePeak(buf, 0),
                                           ![out].peakR = ComputePeak(buf, 1)]
           /\ mx' = IF sinkOpen[out]
                      THEN [m1 EXCEPT !.pc = "write", !.offset = 0, !.remaining = ChunkFrames]
                      ELSE AfterBus(m1, out)
           /\ obs' = [obs EXCEPT !.outSaw[out] = [muted |-> outMuted, volume |-> outVol],
                                 !.outDone = obs.outDone \cup {out},
                                 !.outBuf[out] = buf]
    /\ UNCHANGED <<routes_, channels_, running_, sinkOpen, ctlOps>>
    /\ UNCHANGED mixerOthers

\* while (remaining > 0 && running_.load()) { written = pcOut->write(...); ... }
\* one turn of the loop; the sink takes 0..remaining frames
MxWrite ==
    /\ mx.pc = "write"
    /\ IF mx.remaining > 0 /\ running_
         THEN \E written \in 0..mx.remaining :
                mx' = IF mx.remaining - written > 0
                        THEN [mx EXCEPT !.offset = mx.offset + written,
                                        !.remaining = mx.remaining - written]
                        ELSE AfterBus([mx EXCEPT !.offset = mx.offset + written,
                                                 !.remaining = 0], mx.i)
         ELSE mx' = AfterBus(mx, mx.i)
    /\ UNCHANGED <<routes_, channels_, outputs_, running_, sinkOpen, obs, ctlOps>>
    /\ UNCHANGED mixerOthers

\* 7. pace to real time: sleep for the rest of the chunk period; next iteration
MxPace ==
    /\ mx.pc = "pace"
    /\ mx' = [mx EXCEPT !.pc = "top"]
    /\ UNCHANGED <<routes_, channels_, outputs_, running_, sinkOpen, obs, ctlOps>>
    /\ UNCHANGED mixerOthers

\* ---- the control API, called from other threads ----
\* the control calls of the model: the channels and buses they address, and
\* the volumes they pass (13/32 and 1.5)
CtlInputs == {IN1, SYNTH}
CtlOutputs == {OUT1}
VolSet == {13, 48}

\* bookkeeping of a control call: it counts, and it marks a chunk in progress
Counted ==
    /\ ctlOps < MaxCtl
    /\ ctlOps' = ctlOps + 1
    /\ obs' = [obs EXCEPT !.dirty = (obs.dirty \/ mx.pc \notin {"none", "top", "exited"})]
    /\ UNCHANGED <<running_, sinkOpen, mx>>
    /\ UNCHANGED mixerOthers

\* void setRouteEnabled(MixerInput in, MixerOutput out, bool enabled)
SetRouteEnabled ==
    /\ \E c \in CtlInputs, o \in CtlOutputs, b \in BOOLEAN :
          routes_' = [routes_ EXCEPT ![c][o].enabled = b]
    /\ Counted
    /\ UNCHANGED <<channels_, outputs_>>

\* void setRouteVolume(MixerInput in, MixerOutput out, float vol)
SetRouteVolume ==
    /\ \E c \in CtlInputs, o \in CtlOutputs, v \in VolSet :
          routes_' = [routes_ EXCEPT ![c][o].volume = v]
    /\ Counted
    /\ UNCHANGED <<channels_, outputs_>>

\* void setChannelVolume(MixerInput in, float vol)
SetChannelVolume ==
    /\ \E c \in CtlInputs, v \in VolSet :
          channels_' = [channels_ EXCEPT ![c].volume = v]
    /\ Counted
    /\ UNCHANGED <<routes_, outputs_>>

\* void setChannelMute(MixerInput in, bool muted)
SetChannelMute ==
    /\ \E c \in CtlInputs, b \in BOOLEAN :
          channels_' = [channels_ EXCEPT ![c].muted = b]
    /\ Counted
    /\ UNCHANGED <<routes_, outputs_>>

\* void setChannelSolo(MixerInput in, bool soloed)
SetChannelSolo ==
    /\ \E c \in CtlInputs, b \in BOOLEAN :
          channels_' = [channels_ EXCEPT ![c].soloed = b]
    /\ Counted
    /\ UNCHANGED <<routes_, outputs_>>

\* void setOutputVolume(MixerOutput out, float vol)
SetOutputVolume ==
    /\ \E o \in CtlOutputs, v \in VolSet :
          outputs_' = [outputs_ EXCEPT ![o].volume = v]
    /\ Counted
    /\ UNCHANGED <<routes_, channels_>>

\* void setOutputMute(MixerOutput out, bool muted)
SetOutputMute ==
    /\ \E o \in CtlOutputs, b \in BOOLEAN :
          outputs_' = [outputs_ EXCEPT ![o].muted = b]
    /\ Counted
    /\ UNCHANGED <<routes_, channels_>>

\* ---- the engine as crosspad_app_init leaves it ----
\* the control states loadState() leaves in the model: no file (setDefaults),
\* a file with IN1 and SYNTH routed to OUT1 at unity, and a file with every
\* route enabled and volumes other than 1.0 (one of them negative)
StartDocs ==
    { [routes |-> DefaultRoutes,
       chVol |-> [c \in Inputs |-> VolOne], outVol |-> [o \in Outputs |-> VolOne]],
      [routes |-> [c \in Inputs |-> [o \in Outputs |->
                     [enabled |-> (o = OUT1 /\ c # IN2),
                      volume |-> IF o = OUT2 THEN 48 ELSE VolOne]]],
       chVol |-> [c \in Inputs |-> VolOne], outVol |-> [o \in Outputs |-> VolOne]],
      [routes |-> [c \in Inputs |-> [o \in Outputs |->
                     [enabled |-> TRUE,
                      volume |-> IF c = SYNTH /\ o = OUT1 THEN 13
                                 ELSE IF c = SYNTH /\ o = OUT2 THEN -13 ELSE VolOne]]],
       chVol |-> [c \in Inputs |-> IF c = IN1 THEN 48 ELSE IF c = SYNTH THEN 13 ELSE VolOne],
       outVol |-> [o \in Outputs |-> IF o = OUT1 THEN 24 ELSE 48]] }

\* loadState() has run; start() has set running_ and launched the thread, which
\* has set up its buffers; the first output device is open, the second is not
MixInit ==
    /\ buffer_ = << >>
    /\ capacity_ = 0
    /\ head_ = 0
    /\ tail_ = 0
    /\ accepted = << >>
    /\ delivered = << >>
    /\ last = Call("new", 0, 0)
    /\ log = << >>
    /\ prod = Idle
    /\ cons = Idle
    /\ \E doc \in StartDocs :
          /\ routes_ = doc.routes
          /\ channels_ = [c \in Inputs |-> [NewChannel EXCEPT !.volume = doc.chVol[c]]]
          /\ outputs_ = [o \in Outputs |-> [NewOutput EXCEPT !.volume = doc.outVol[o]]]
    /\ running_ = TRUE
    /\ sinkOpen = [o \in Outputs |-> o = OUT1]
    /\ mx = [NoThread EXCEPT !.pc = "top"]
    /\ obs = NoObs
    /\ ctlOps = 0
    /\ AroundNew

MixNext ==
    \/ MxTop
    \/ MxPeaks
    \/ MxSolo
    \/ MxChannel
    \/ MxOutput
    \/ MxWrite
    \/ MxPace
    \/ SetRouteEnabled
    \/ SetRouteVolume
    \/ SetChannelVolume
    \/ SetChannelMute
    \/ SetChannelSolo
    \/ SetOutputVolume
    \/ SetOutputMute

SpecMix == MixInit /\ [][MixNext]_vars

(***************************************************************************)
(* start() and stop(), and the mixing threads they launch.  A thread is    *)
(* followed through its loop by the chunk it carries: reading, metering    *)
(* and mixing are one step here, the delivery to the sinks is step by step.*)
(***************************************************************************)
lifeOthers == <<buffer_, capacity_, head_, tail_, accepted, delivered, last, log, prod, cons,
                routes_, channels_, outputs_, mx, obs, ctlOps, persistVars, capture>>

\* start() that launches whatever the flag says
StartNeverSkips(running) == FALSE

\* if (running_.load()) return;
StartSkips(running) == running

\* if (!running_.load()) return;
StopSkips(running) == ~running

\* the write loop without the running flag
WriteLoopCondNoFlag(remaining, running) == remaining > 0

\* while (remaining > 0 && running_.load())
WriteLoopCond(remaining, running) == remaining > 0 /\ running

\* start(): the load of running_
StartCall(c) ==
    /\ caller[c].pc = "idle"
    /\ counts.start + counts.stop + counts.close < MaxCalls
    /\ counts' = [counts EXCEPT !.start = counts.start + 1]
    /\ caller' = [caller EXCEPT ![c] =
                     IF StartSkips(running_) THEN [pc |-> "idle"] ELSE [pc |-> "start_store"]]
    /\ UNCHANGED <<running_, sinkOpen, threads, sunk, sinkFull>>
    /\ UNCHANGED lifeOthers

\* start(): running_.store(true)
StartStore(c) ==
    /\ caller[c].pc = "start_store"
    /\ running_' = TRUE
    /\ caller' = [caller EXCEPT ![c].pc = "start_spawn"]
    /\ UNCHANGED <<sinkOpen, threads, sunk, sinkFull, counts>>
    /\ UNCHANGED lifeOthers

\* start(): std::thread(&AudioMixerEngine::mixerThreadFunc, this).detach()
StartSpawn(c) ==
    /\ caller[c].pc = "start_spawn"
    /\ LET free == {t \in ThreadIds : threads[t].pc \in {"none", "exited"}}
           t    == CHOOSE u \in free :
                      threads[u].pc = "none" \/ \A v \in free : threads[v].pc # "none"
       IN  /\ free # {}
           /\ threads' = [threads EXCEPT ![t] = [NoMixThread EXCEPT !.pc = "top"]]
    /\ caller' = [caller EXCEPT ![c] = [pc |-> "idle"]]
    /\ UNCHANGED <<running_, sinkOpen, sunk, sinkFull, counts>>
    /\ UNCHANGED lifeOthers

\* stop(): the load of running_
StopCall(c) ==
    /\ caller[c].pc = "idle"
    /\ counts.start + counts.stop + counts.close < MaxCalls
    /\ counts' = [counts EXCEPT !.stop = counts.stop + 1]
    /\ caller' = [caller EXCEPT ![c] =
                     IF StopSkips(running_) THEN [pc |-> "idle"] ELSE [pc |-> "stop_store"]]
    /\ UNCHANGED <<running_, sinkOpen, threads, sunk, sinkFull>>
    /\ UNCHANGED lifeOthers

\* stop(): running_.store(false)
StopStore(c) ==
    /\ caller[c].pc = "stop_store"
    /\ running_' = FALSE
    /\ caller' = [caller EXCEPT ![c].pc = "stop_sleep"]
    /\ UNCHANGED <<sinkOpen, threads, sunk, sinkFull, counts>>
    /\ UNCHANGED lifeOthers

\* stop(): sleep_for(20 ms), then return
StopSleep(c) ==
    /\ caller[c].pc = "stop_sleep"
    /\ caller' = [caller EXCEPT ![c] = [pc |-> "idle"]]
    /\ UNCHANGED <<running_, sinkOpen, threads, sunk, sinkFull, counts>>
    /\ UNCHANGED lifeOthers

\* PcAudioOutput::end() from another thread: streamOpen_ = false, outputRing_.reset()
SinkEnd(o) ==
    /\ sinkOpen[o]
    /\ counts.start + counts.stop + counts.close < MaxCalls
    /\ counts' = [counts EXCEPT !.close = counts.close + 1]
    /\ sinkOpen' = [sinkOpen EXCEPT ![o] = FALSE]
    /\ sinkFull' = [sinkFull EXCEPT ![o] = FALSE]
    /\ UNCHANGED <<running_, threads, caller, sunk>>
    /\ UNCHANGED lifeOthers

\* the device stops or resumes draining the sink's ring: outputRing_.space()
\* below one frame, or not
SinkLevel(o) ==
    /\ sinkOpen[o]
    /\ sinkFull' = [sinkFull EXCEPT ![o] = ~sinkFull[o]]
    /\ UNCHANGED <<running_, sinkOpen, threads, caller, sunk, counts>>
    /\ UNCHANGED lifeOthers

\* where a thread goes after the bus it is at
ThAfterBus(th) ==
    IF th.out + 1 < MIXER_NUM_OUTPUTS
      THEN [th EXCEPT !.pc = "out", !.out = th.out + 1]
      ELSE [th EXCEPT !.pc = "pace"]

\* while (running_.load()) { read inputs, peaks, route and mix: the next chunk
ThTop(t) ==
    /\ threads[t].pc = "top"
    /\ threads' = [threads EXCEPT ![t] =
                     IF running_
                       THEN [threads[t] EXCEPT !.pc = "out", !.out = 0, !.stalled = FALSE]
                       ELSE [threads[t] EXCEPT !.pc = "exited"]]
    /\ UNCHANGED <<running_, sinkOpen, caller, sunk, sinkFull, counts>>
    /\ UNCHANGED lifeOthers

\* output stage of one bus, then: if (pcOut && pcOut->isOpen()) { offset = 0; remaining = CHUNK;
ThOutput(t) ==
    /\ threads[t].pc = "out"
    /\ threads' = [threads EXCEPT ![t] =
                     IF sinkOpen[threads[t].out]
                       THEN [threads[t] EXCEPT !.pc = "write", !.offset = 0,
                                               !.remaining = ChunkFrames]
                       ELSE ThAfterBus(threads[t])]
    /\ UNCHANGED <<running_, sinkOpen, caller, sunk, sinkFull, counts>>
    /\ UNCHANGED lifeOthers

\* one turn of the write loop: written = pcOut->write(outBuf + offset * 2, remaining);
\* PcAudioOutput::write gives 0 when the stream is not open or the ring is full
ThWrite(t) ==
    /\ threads[t].pc = "write"
    /\ LET th == threads[t]
           o  == th.out
       IN  IF WriteLoopCond(th.remaining, running_)
             THEN \E written \in (IF sinkOpen[o] /\ ~sinkFull[o]
                                    THEN 1..th.remaining ELSE {0}) :
                    /\ sunk' = [sunk EXCEPT ![o] =
                                  IF written = 0 THEN sunk[o]
                                  ELSE <<t, th.offset + written - 1>>]
                    /\ threads' = [threads EXCEPT ![t] =
                                     IF th.remaining - written > 0
                                       THEN [th EXCEPT !.offset = th.offset + written,
                                                       !.remaining = th.remaining - written,
                                                       !.stalled = th.stalled \/ written = 0]
                                       ELSE ThAfterBus([th EXCEPT !.offset = th.offset + written,
                                                                  !.remaining = 0])]
             ELSE /\ threads' = [threads EXCEPT ![t] = ThAfterBus(th)]
                  /\ UNCHANGED sunk
    /\ UNCHANGED <<running_, sinkOpen, caller, sinkFull, counts>>
    /\ UNCHANGED lifeOthers

\* pacing sleep, then the loop test again
ThPace(t) ==
    /\ threads[t].pc = "pace"
    /\ threads' = [threads EXCEPT ![t].pc = "top"]
    /\ UNCHANGED <<running_, sinkOpen, caller, sunk, sinkFull, counts>>
    /\ UNCHANGED lifeOthers

ThStep(t) == ThTop(t) \/ ThOutput(t) \/ ThWrite(t) \/ ThPace(t)

\* the engine is constructed, the first output device is open, the second absent
LifeInit ==
    /\ buffer_ = << >>
    /\ capacity_ = 0
    /\ head_ = 0
    /\ tail_ = 0
    /\ accepted = << >>
    /\ delivered = << >>
    /\ last = Call("new", 0, 0)
    /\ log = << >>
    /\ prod = Idle
    /\ cons = Idle
    /\ routes_ = [c \in Inputs |-> [o \in Outputs |-> NewRoute]]
    /\ channels_ = [c \in Inputs |-> NewChannel]
    /\ outputs_ = [o \in Outputs |-> NewOutput]
    /\ running_ = FALSE
    /\ sinkOpen = [o \in Outputs |-> o = OUT1]
    /\ mx = NoThread
    /\ obs = NoObs
    /\ ctlOps = 0
    /\ AroundNew

LifeNext ==
    \/ \E c \in Callers : StartCall(c)
    \/ \E c \in Callers : StartStore(c)
    \/ \E c \in Callers : StartSpawn(c)
    \/ \E c \in Callers : StopCall(c)
    \/ \E c \in Callers : StopStore(c)
    \/ \E c \in Callers : StopSleep(c)
    \/ \E o \in Outputs : SinkEnd(o)
    \/ \E o \in Outputs : SinkLevel(o)
    \/ \E t \in ThreadIds : ThTop(t)
    \/ \E t \in ThreadIds : ThOutput(t)
    \/ \E t \in ThreadIds : ThWrite(t)
    \/ \E t \in ThreadIds : ThPace(t)

SpecLife == LifeInit /\ [][LifeNext]_vars

\* every launched thread keeps being scheduled; nothing is assumed of the
\* callers or of the sinks
SpecLifeFair == SpecLife /\ \A t \in ThreadIds : WF_vars(ThStep(t))

\* the same, and a thread whose retry finds room in the sink again and again
\* gets to write: the retry loop polls every millisecond
SpecLifeStrong == SpecLife /\ \A t \in ThreadIds : SF_vars(ThStep(t))

(***************************************************************************)
(* Reading the capture input IN1: the audio callback fills inputRing_, the *)
(* mixing thread empties it chunk by chunk into inBuf[0].                  *)
(***************************************************************************)
\* inputRing_.resize(bufferFrames_ * 2 * 8): an even number of samples
InCap == 2 * (MaxCap - 1)

inputOthers == <<log, prod, cons, routes_, channels_, outputs_, running_, sinkOpen,
                 obs, ctlOps, lifeVars, persistVars>>

\* PcAudioInput::handleCallback: inputRing_.write(inputBuffer, nFrames * 2)
CapCallback ==
    /\ capture.present /\ capture.open
    /\ Len(accepted) < MaxTotal
    /\ \E nFrames \in 1..(ChunkFrames + 1) : Write(2 * nFrames)
    \* the accepted samples that are the L of a frame accepted with its R
    /\ capture' = [capture EXCEPT !.frames =
                      @ \cup {Len(accepted) + 1 + 2 * j :
                                 j \in 0..(((Len(accepted') - Len(accepted)) \div 2) - 1)}]
    /\ UNCHANGED mx
    /\ UNCHANGED inputOthers

\* PcAudioInput::end(): streamOpen_ = false, inputRing_.reset()
CapEnd ==
    /\ capture.present /\ capture.open
    /\ Reset
    /\ capture' = [capture EXCEPT !.open = FALSE, !.frames = {}]
    /\ UNCHANGED mx
    /\ UNCHANGED inputOthers

\* the mixing thread, step 1 for IN1:
\*   if (audioIn1) { got = pcIn->read(inBuf[0], CHUNK); if (got < CHUNK) memset(rest, 0) }
\*   else memset(inBuf[0], 0)
\* with PcAudioInput::read: 0 if the stream is closed, else a ring read of
\* min(CHUNK * 2, available() & ~1) samples
InRead ==
    LET old    == mx.inBuf[IN1]
        want   == Min(2 * ChunkFrames, available - (available % 2))
        n      == IF capture.present /\ capture.open /\ capacity_ > 0
                    THEN ReadCount(tail_, head_, want) ELSE 0
        out    == IF n = 0 THEN old
                  ELSE ReadCopy(buffer_, old, tail_ % capacity_,
                                FirstPart(tail_ % capacity_, n), 0, n)
        got    == n \div 2
        filled == IF ~capture.present THEN ZeroBuf
                  ELSE [s \in Samples |-> IF s >= 2 * got THEN 0 ELSE out[s]]
    IN  /\ mx' = [mx EXCEPT !.inBuf[IN1] = filled]
        /\ capture' = [capture EXCEPT !.got = got, !.from = Len(delivered)]
        /\ tail_' = tail_ + n
        \* the samples this read consumed from the ring
        /\ delivered' = delivered \o [k \in 1..n |-> accepted[Len(delivered) + k]]
        /\ last' = Call("read", 2 * ChunkFrames, n)
        /\ UNCHANGED <<buffer_, capacity_, head_, accepted>>
        /\ UNCHANGED inputOthers

\* the capture device is absent, or it is there with its stream open and its
\* ring sized and empty; the mixing thread has its buffers zeroed
InputInit ==
    /\ \E present \in BOOLEAN :
          /\ capture = [NoCapture EXCEPT !.present = present, !.open = present]
          /\ capacity_ = IF present THEN InCap ELSE 0
          /\ buffer_ = IF present THEN [k \in 0..(InCap - 1) |-> 0] ELSE << >>
    /\ head_ = 0
    /\ tail_ = 0
    /\ accepted = << >>
    /\ delivered = << >>
    /\ last = Call("new", 0, 0)
    /\ log = << >>
    /\ prod = Idle
    /\ cons = Idle
    /\ routes_ = [c \in Inputs |-> [o \in Outputs |-> NewRoute]]
    /\ channels_ = [c \in Inputs |-> NewChannel]
    /\ outputs_ = [o \in Outputs |-> NewOutput]
    /\ running_ = TRUE
    /\ sinkOpen = [o \in Outputs |-> FALSE]
    /\ mx = [NoThread EXCEPT !.pc = "top"]
    /\ obs = NoObs
    /\ ctlOps = 0
    /\ threads = [t \in ThreadIds |-> NoMixThread]
    /\ caller = [c \in Callers |-> NoCall]
    /\ sunk = [o \in Outputs |-> NoFrame]
    /\ sinkFull = [o \in Outputs |-> FALSE]
    /\ counts = [start |-> 0, stop |-> 0, close |-> 0]
    /\ file = NoFile
    /\ ctl = NoCtl

InputNext == CapCallback \/ CapEnd \/ InRead

SpecInput == InputInit /\ [][InputNext]_vars

(***************************************************************************)
(* Persistence: saveState() builds a JSON document from the control state  *)
(* and writes it; loadState() reads the document back field by field.      *)
(***************************************************************************)
\* control-surface changes in one behaviour
MaxPress == 2

\* the decimal places of a volume in the document: 1/32 = 0.03125
FracDigits == 100000

persistOthers == <<ringVars, prod, cons, running_, sinkOpen, mx, obs, lifeVars, capture>>

\* the fields saveState() writes and loadState() stores
ControlOf(R, C, O) ==
    [routes   |-> R,
     channels |-> [c \in Inputs |-> [volume |-> C[c].volume, muted |-> C[c].muted,
                                     soloed |-> C[c].soloed]],
     outputs  |-> [o \in Outputs |-> [volume |-> O[o].volume, muted |-> O[o].muted]]]

Control == ControlOf(routes_, channels_, outputs_)

\* what setDefaults() leaves in those fields
DefaultControl ==
    ControlOf(DefaultRoutes, [c \in Inputs |-> NewChannel], [o \in Outputs |-> NewOutput])

\* r["volume"] = volume: the number as decimal text, sign, integer part and
\* fraction
JsonNum(v) ==
    LET a == IF v < 0 THEN 0 - v ELSE v
    IN  [neg |-> v < 0, int |-> a \div VolOne, frac |-> (a % VolOne) * (FracDigits \div VolOne)]

\* a reader that stops at the decimal point
NumValueInt(n) ==
    LET a == n.int * VolOne
    IN  IF n.neg THEN 0 - a ELSE a

\* the float a number of the document is read as
NumValue(n) ==
    LET a == n.int * VolOne + (n.frac * VolOne) \div FracDigits
    IN  IF n.neg THEN 0 - a ELSE a

\* a member of a JSON object: << >> when the key is absent, <<value>> otherwise
Absent == << >>

\* member | fallback
Or(member, fallback) == IF member = Absent THEN fallback ELSE member[1]

\* the same for a number member read as float
OrNum(member, fallback) == IF member = Absent THEN fallback ELSE NumValue(member[1])

\* saveState(): the document built from the control state; the routes in the
\* order of the two nested loops
SaveDoc(R, C, O) ==
    [routes   |-> << [k \in 1..(MIXER_NUM_INPUTS * MIXER_NUM_OUTPUTS) |->
                        LET i == (k - 1) \div MIXER_NUM_OUTPUTS
                            o == (k - 1) % MIXER_NUM_OUTPUTS
                        IN  [in |-> <<i>>, out |-> <<o>>,
                             enabled |-> <<R[i][o].enabled>>,
                             volume |-> <<JsonNum(R[i][o].volume)>>]] >>,
     channels |-> << [k \in 1..MIXER_NUM_INPUTS |->
                        [volume |-> <<JsonNum(C[k - 1].volume)>>,
                         muted |-> <<C[k - 1].muted>>,
                         soloed |-> <<C[k - 1].soloed>>]] >>,
     outputs  |-> << [k \in 1..MIXER_NUM_OUTPUTS |->
                        [volume |-> <<JsonNum(O[k - 1].volume)>>,
                         muted |-> <<O[k - 1].muted>>]] >>]

\* loadState(), the routes loop: each entry stored at its "in" and "out"
RECURSIVE LoadRoutes(_, _, _)
LoadRoutes(arr, k, R) ==
    IF k > Len(arr) THEN R
    ELSE LET r == arr[k]
             i == Or(r.in, 0)
             o == Or(r.out, 0)
         IN  IF i >= 0 /\ i < MIXER_NUM_INPUTS /\ o >= 0 /\ o < MIXER_NUM_OUTPUTS
               THEN LoadRoutes(arr, k + 1,
                               [R EXCEPT ![i][o] = [enabled |-> Or(r.enabled, FALSE),
                                                    volume |-> OrNum(r.volume, VolOne)]])
               ELSE LoadRoutes(arr, k + 1, R)

\* a channels loop that gives up an entry whose volume is absent
LoadChannelsCoupled(arr, C) ==
    [c \in Inputs |->
        IF c + 1 > Len(arr) THEN C[c]
        ELSE IF arr[c + 1].volume = Absent
          THEN [C[c] EXCEPT !.volume = VolOne, !.muted = FALSE, !.soloed = FALSE]
        ELSE [C[c] EXCEPT !.volume = OrNum(arr[c + 1].volume, VolOne),
                          !.muted = Or(arr[c + 1].muted, FALSE),
                          !.soloed = Or(arr[c + 1].soloed, FALSE)]]

\* a channels loop without the break: the fourth entry is stored over the first
LoadChannelsWrap(arr, C) ==
    [c \in Inputs |->
        LET k == IF c + 1 + MIXER_NUM_INPUTS <= Len(arr) THEN c + 1 + MIXER_NUM_INPUTS ELSE c + 1
        IN  IF k > Len(arr) THEN C[c]
            ELSE [C[c] EXCEPT !.volume = OrNum(arr[k].volume, VolOne),
                              !.muted = Or(arr[k].muted, FALSE),
                              !.soloed = Or(arr[k].soloed, FALSE)]]

\* loadState(), the channels loop: the entries by position, at most three
LoadChannels(arr, C) ==
    [c \in Inputs |->
        IF c + 1 > Len(arr) THEN C[c]
        ELSE [C[c] EXCEPT !.volume = OrNum(arr[c + 1].volume, VolOne),
                          !.muted = Or(arr[c + 1].muted, FALSE),
                          !.soloed = Or(arr[c + 1].soloed, FALSE)]]

\* loadState(), the outputs loop: the entries by position, at most two
LoadOutputs(arr, O) ==
    [o \in Outputs |->
        IF o + 1 > Len(arr) THEN O[o]
        ELSE [O[o] EXCEPT !.volume = OrNum(arr[o + 1].volume, VolOne),
                          !.muted = Or(arr[o + 1].muted, FALSE)]]

\* loadState(path) applied to an engine whose state is R, C, O
LoadState(f, R, C, O) ==
    IF f.kind # "doc"
      THEN [routes |-> DefaultRoutes, channels |-> DefaultChannels(C),
            outputs |-> DefaultOutputs(O)]
      ELSE [routes   |-> IF f.doc.routes = Absent THEN R
                         ELSE LoadRoutes(f.doc.routes[1], 1, R),
            channels |-> IF f.doc.channels = Absent THEN C
                         ELSE LoadChannels(f.doc.channels[1], C),
            outputs  |-> IF f.doc.outputs = Absent THEN O
                         ELSE LoadOutputs(f.doc.outputs[1], O)]

\* the documents somebody else left at the location: they lack a field, an
\* entry or an array
EditedDocs ==
    LET full == SaveDoc([c \in Inputs |-> [o \in Outputs |->
                            [enabled |-> (c = IN1), volume |-> IF o = OUT2 THEN 48 ELSE 13]]],
                        [c \in Inputs |-> [NewChannel EXCEPT !.volume = 48, !.muted = (c = IN2),
                                                             !.soloed = (c = SYNTH)]],
                        [o \in Outputs |-> [NewOutput EXCEPT !.volume = 13, !.muted = (o = OUT1)]])
        r == full.routes[1]
        c == full.channels[1]
        o == full.outputs[1]
    IN  { [full EXCEPT !.routes = << [r EXCEPT ![1].volume = Absent, ![4].enabled = Absent] >>,
                       !.channels = << [c EXCEPT ![1].volume = Absent, ![2].muted = Absent,
                                                 ![3].soloed = Absent] >>,
                       !.outputs = << [o EXCEPT ![1].muted = Absent, ![2].volume = Absent] >>],
          [full EXCEPT !.routes = << [r EXCEPT ![2].enabled = Absent, ![2].volume = Absent,
                                               ![5].volume = Absent] >>,
                       !.channels = << [c EXCEPT ![1].muted = Absent, ![1].soloed = Absent,
                                                 ![3].volume = Absent] >>,
                       !.outputs = << [o EXCEPT ![1].volume = Absent, ![2].muted = Absent] >>],
          [full EXCEPT !.routes = << SubSeq(r, 3, 5) >>,
                       !.channels = << SubSeq(c, 1, 2) >>,
                       !.outputs = Absent],
          [full EXCEPT !.routes = Absent,
                       !.channels = << << >> >>,
                       !.outputs = << SubSeq(o, 1, 1) >>] }

\* what can be at the location without a save of this engine: nothing, a file
\* that is not JSON, or one of the edited documents
OtherFiles ==
    {NoFile, [kind |-> "garbage"]}
        \cup {[kind |-> "doc", doc |-> d, from |-> << >>] : d \in EditedDocs}

\* the pads pressed in the model: a mute, an unused pad, a solo, a route to
\* each bus and the mute of OUT1
PadSet == {0, 3, 6, 8, 11, 14}

\* a pad handler whose pad 15 toggles the mute of OUT1
PadSwitchOneMute(padIdx) ==
    IF padIdx \in {0, 1, 2}
      THEN /\ channels_' = [channels_ EXCEPT ![padIdx].muted = ~channels_[padIdx].muted]
           /\ UNCHANGED <<routes_, outputs_>>
    ELSE IF padIdx \in {4, 5, 6}
      THEN /\ channels_' = [channels_ EXCEPT ![padIdx - 4].soloed = ~channels_[padIdx - 4].soloed]
           /\ UNCHANGED <<routes_, outputs_>>
    ELSE IF padIdx \in {8, 9, 10}
      THEN /\ routes_' = [routes_ EXCEPT ![padIdx - 8][OUT1].enabled =
                                             ~routes_[padIdx - 8][OUT1].enabled]
           /\ UNCHANGED <<channels_, outputs_>>
    ELSE IF padIdx \in {11, 15}
      THEN /\ outputs_' = [outputs_ EXCEPT ![OUT1].muted = ~outputs_[OUT1].muted]
           /\ UNCHANGED <<routes_, channels_>>
    ELSE IF padIdx \in {12, 13, 14}
      THEN /\ routes_' = [routes_ EXCEPT ![padIdx - 12][OUT2].enabled =
                                             ~routes_[padIdx - 12][OUT2].enabled]
           /\ UNCHANGED <<channels_, outputs_>>
    ELSE UNCHANGED <<routes_, channels_, outputs_>>

\* MixerPadLogic::onPadPress, the switch on padIdx
PadSwitch(padIdx) ==
    IF padIdx \in {0, 1, 2}
      THEN /\ channels_' = [channels_ EXCEPT ![padIdx].muted = ~channels_[padIdx].muted]
           /\ UNCHANGED <<routes_, outputs_>>
    ELSE IF padIdx \in {4, 5, 6}
      THEN /\ channels_' = [channels_ EXCEPT ![padIdx - 4].soloed = ~channels_[padIdx - 4].soloed]
           /\ UNCHANGED <<routes_, outputs_>>
    ELSE IF padIdx \in {8, 9, 10}
      THEN /\ routes_' = [routes_ EXCEPT ![padIdx - 8][OUT1].enabled =
                                             ~routes_[padIdx - 8][OUT1].enabled]
           /\ UNCHANGED <<channels_, outputs_>>
    ELSE IF padIdx = 11
      THEN /\ outputs_' = [outputs_ EXCEPT ![OUT1].muted = ~outputs_[OUT1].muted]
           /\ UNCHANGED <<routes_, channels_>>
    ELSE IF padIdx \in {12, 13, 14}
      THEN /\ routes_' = [routes_ EXCEPT ![padIdx - 12][OUT2].enabled =
                                             ~routes_[padIdx - 12][OUT2].enabled]
           /\ UNCHANGED <<channels_, outputs_>>
    ELSE IF padIdx = 15
      THEN /\ outputs_' = [outputs_ EXCEPT ![OUT2].muted = ~outputs_[OUT2].muted]
           /\ UNCHANGED <<routes_, channels_>>
    ELSE UNCHANGED <<routes_, channels_, outputs_>>

\* the GUI events of the model
GuiEvents ==
    {[cb |-> "route_toggle", code |-> SYNTH * 2 + OUT1, vol |-> 0],
     [cb |-> "channel_solo", code |-> IN1, vol |-> 0],
     [cb |-> "output_volume", code |-> OUT2, vol |-> 48]}
        \cup {[cb |-> "channel_volume", code |-> IN1, vol |-> v] : v \in VolSet}

\* on_route_toggle, on_channel_mute, on_channel_solo, on_channel_volume,
\* on_output_volume, on_output_mute: the control call each makes
GuiCall(ev) ==
    IF ev.cb = "route_toggle"
      THEN LET in == ev.code \div 2
               out == ev.code % 2
           IN  /\ routes_' = [routes_ EXCEPT ![in][out].enabled = ~routes_[in][out].enabled]
               /\ UNCHANGED <<channels_, outputs_>>
    ELSE IF ev.cb = "channel_mute"
      THEN /\ channels_' = [channels_ EXCEPT ![ev.code].muted = ~channels_[ev.code].muted]
           /\ UNCHANGED <<routes_, outputs_>>
    ELSE IF ev.cb = "channel_solo"
      THEN /\ channels_' = [channels_ EXCEPT ![ev.code].soloed = ~channels_[ev.code].soloed]
           /\ UNCHANGED <<routes_, outputs_>>
    ELSE IF ev.cb = "channel_volume"
      THEN /\ channels_' = [channels_ EXCEPT ![ev.code].volume = ev.vol]
           /\ UNCHANGED <<routes_, outputs_>>
    ELSE IF ev.cb = "output_volume"
      THEN /\ outputs_' = [outputs_ EXCEPT ![ev.code].volume = ev.vol]
           /\ UNCHANGED <<routes_, channels_>>
    ELSE /\ outputs_' = [outputs_ EXCEPT ![ev.code].muted = ~outputs_[ev.code].muted]
         /\ UNCHANGED <<routes_, channels_>>

\* the control call of a control-surface event
Setters(t) ==
    IF t = "pad" THEN \E padIdx \in PadSet : PadSwitch(padIdx)
    ELSE \E ev \in GuiEvents : GuiCall(ev)

\* MixerPadLogic::onPadPress up to the callback, or a GUI callback up to
\* pc_platform_save_mixer_state(): the control call is made
CtlChange(t) ==
    /\ ctl.th[t].pc = "idle"
    /\ ctlOps < MaxPress
    /\ ctlOps' = ctlOps + 1
    /\ Setters(t)
    /\ ctl' = [ctl EXCEPT !.th[t].pc = "changed", !.did = "change"]
    /\ UNCHANGED file
    /\ UNCHANGED persistOthers

\* saveState(), the document: the fields are read into doc
SaveSnapshot(t) ==
    /\ ctl.th[t].pc = "changed"
    /\ ctl' = [ctl EXCEPT !.th[t].pc = "snapped",
                          !.th[t].snap = <<Control>>,
                          !.did = "snapshot"]
    /\ UNCHANGED <<routes_, channels_, outputs_, ctlOps, file>>
    /\ UNCHANGED persistOthers

\* saveState(), the file: std::ofstream f(path); serializeJsonPretty(doc, f)
SaveWrite(t) ==
    /\ ctl.th[t].pc = "snapped"
    /\ LET snap == ctl.th[t].snap[1]
       IN  file' = [kind |-> "doc",
                    doc |-> SaveDoc(snap.routes, snap.channels, snap.outputs),
                    from |-> <<snap>>]
    /\ ctl' = [ctl EXCEPT !.th[t].pc = "idle", !.th[t].snap = << >>, !.did = "save"]
    /\ UNCHANGED <<routes_, channels_, outputs_, ctlOps>>
    /\ UNCHANGED persistOthers

\* loadState(path) called on the engine as it is
LoadCall ==
    /\ \A t \in CtlThreads : ctl.th[t].pc = "idle"
    /\ LET got == LoadState(file, routes_, channels_, outputs_)
       IN  /\ routes_' = got.routes
           /\ channels_' = got.channels
           /\ outputs_' = got.outputs
    /\ ctl' = [ctl EXCEPT !.did = "load"]
    /\ UNCHANGED <<ctlOps, file>>
    /\ UNCHANGED persistOthers

\* the application started again: crosspad_app_init calls loadState(path) on
\* the engine as it is constructed
Restart ==
    /\ \A t \in CtlThreads : ctl.th[t].pc = "idle"
    /\ LET got == LoadState(file, [c \in Inputs |-> [o \in Outputs |-> NewRoute]],
                            [c \in Inputs |-> NewChannel], [o \in Outputs |-> NewOutput])
       IN  /\ routes_' = got.routes
           /\ channels_' = got.channels
           /\ outputs_' = got.outputs
    /\ ctl' = [ctl EXCEPT !.did = "restart"]
    /\ UNCHANGED <<ctlOps, file>>
    /\ UNCHANGED persistOthers

\* somebody else deletes, damages or replaces the file
FileReplaced ==
    /\ \A t \in CtlThreads : ctl.th[t].pc = "idle"
    /\ \E f \in OtherFiles : file' = f
    /\ ctl' = [ctl EXCEPT !.did = "replace"]
    /\ UNCHANGED <<routes_, channels_, outputs_, ctlOps>>
    /\ UNCHANGED persistOthers

\* the engine constructed, nothing loaded yet; anything may be at the location
PersistInit ==
    /\ buffer_ = << >>
    /\ capacity_ = 0
    /\ head_ = 0
    /\ tail_ = 0
    /\ accepted = << >>
    /\ delivered = << >>
    /\ last = Call("new", 0, 0)
    /\ log = << >>
    /\ prod = Idle
    /\ cons = Idle
    /\ EngineNew
    /\ threads = [t \in ThreadIds |-> NoMixThread]
    /\ caller = [c \in Callers |-> NoCall]
    /\ sunk = [o \in Outputs |-> NoFrame]
    /\ sinkFull = [o \in Outputs |-> FALSE]
    /\ counts = [start |-> 0, stop |-> 0, close |-> 0]
    /\ file \in OtherFiles
    /\ ctl = NoCtl
    /\ capture = NoCapture

PersistNext ==
    \/ \E t \in CtlThreads : CtlChange(t)
    \/ \E t \in CtlThreads : SaveSnapshot(t)
    \/ \E t \in CtlThreads : SaveWrite(t)
    \/ LoadCall
    \/ Restart
    \/ FileReplaced

SpecPersist == PersistInit /\ [][PersistNext]_vars

(***************************************************************************)
(* The mixer pads: every pad index pressed on one thread, the handler as   *)
(* a whole.                                                                *)
(***************************************************************************)
\* the pad indices pressed: the 16 pads and one index past them
MaxPad == 16

\* MixerPadLogic::onPadPress(padManager, padIdx, velocity), start to end:
\* if (padIdx >= 16) return; the switch; updatePadColors; the state-changed
\* callback, which saves the state
OnPadPress(padIdx) ==
    /\ ctlOps < MaxPress
    /\ ctlOps' = ctlOps + 1
    /\ IF padIdx >= 16
         THEN UNCHANGED <<routes_, channels_, outputs_, file>>
         ELSE /\ PadSwitch(padIdx)
              /\ file' = [kind |-> "doc",
                          doc |-> SaveDoc(routes_', channels_', outputs_'),
                          from |-> <<ControlOf(routes_', channels_', outputs_')>>]
    /\ ctl' = [th |-> ctl.th, did |-> "press", pad |-> padIdx,
               before |-> <<Control>>, twice |-> (ctl.did = "press" /\ ctl.pad = padIdx),
               before2 |-> ctl.before]
    /\ UNCHANGED persistOthers

\* the engine as crosspad_app_init leaves it: loadState has run on no file or
\* on a document, and the pad logic is registered
PadsInit ==
    /\ buffer_ = << >>
    /\ capacity_ = 0
    /\ head_ = 0
    /\ tail_ = 0
    /\ accepted = << >>
    /\ delivered = << >>
    /\ last = Call("new", 0, 0)
    /\ log = << >>
    /\ prod = Idle
    /\ cons = Idle
    /\ running_ = FALSE
    /\ sinkOpen = [o \in Outputs |-> FALSE]
    /\ mx = NoThread
    /\ obs = NoObs
    /\ ctlOps = 0
    /\ threads = [t \in ThreadIds |-> NoMixThread]
    /\ caller = [c \in Callers |-> NoCall]
    /\ sunk = [o \in Outputs |-> NoFrame]
    /\ sinkFull = [o \in Outputs |-> FALSE]
    /\ counts = [start |-> 0, stop |-> 0, close |-> 0]
    /\ file \in OtherFiles
    /\ LET got == LoadState(file, [c \in Inputs |-> [o \in Outputs |-> NewRoute]],
                            [c \in Inputs |-> NewChannel], [o \in Outputs |-> NewOutput])
       IN  /\ routes_ = got.routes
           /\ channels_ = got.channels
           /\ outputs_ = got.outputs
    /\ ctl = [th |-> NoCtl.th, did |-> "none", pad |-> 0, before |-> << >>,
              twice |-> FALSE, before2 |-> << >>]
    /\ capture = NoCapture

PadsNext == \E padIdx \in 0..MaxPad : OnPadPress(padIdx)

SpecPads == PadsInit /\ [][PadsNext]_vars

(***************************************************************************)
(* The width of the accumulators: one chunk mixed as a whole, with the     *)
(* volumes the setters and loadState store.                                *)
(***************************************************************************)
\* int32_t
INT32_MAX == INT16_MAX * 65536 + 65535
INT32_MIN == (0 - INT32_MAX) - 1

Magnitude(x) == IF x < 0 THEN 0 - x ELSE x

\* a * b is an int32_t: |a| * |b| <= 2^31 - 1, or 2^31 for a negative product
FitsMul(a, b) ==
    \/ a = 0
    \/ b = 0
    \/ LET q == INT32_MAX \div Magnitude(b)
           r == INT32_MAX % Magnitude(b)
       IN  \/ Magnitude(a) <= q
           \/ /\ (a < 0) # (b < 0)
              /\ r = Magnitude(b) - 1
              /\ Magnitude(a) = q + 1

\* a + b is an int32_t
FitsAdd(a, b) == IF b >= 0 THEN a <= INT32_MAX - b ELSE a >= INT32_MIN - b

\* volumes the setters and loadState store without a check: for a route 1.0
\* and 256.0, for a channel or an output 1.0, 1.5 and 16.0
WideVols(what) == IF what = "route" THEN {VolOne, 256 * VolOne} ELSE {VolOne, 48, 16 * VolOne}

\* a document with a route volume and an output volume of 128.0
WideDoc ==
    SaveDoc([c \in Inputs |-> [o \in Outputs |->
                [enabled |-> (o = OUT1), volume |-> IF c = IN1 THEN 128 * VolOne ELSE VolOne]]],
            [c \in Inputs |-> NewChannel],
            [o \in Outputs |-> [NewOutput EXCEPT !.volume = 128 * VolOne]])

wideOthers == <<ringVars, prod, cons, running_, sinkOpen, obs, lifeVars, ctl, capture>>

\* setRouteVolume, setChannelVolume, setOutputVolume: the value is stored as
\* it comes
WideSet ==
    /\ ctlOps < MaxPress
    /\ ctlOps' = ctlOps + 1
    /\ \/ \E c \in CtlInputs, o \in CtlOutputs, v \in WideVols("route") :
             /\ routes_' = [routes_ EXCEPT ![c][o].volume = v]
             /\ UNCHANGED <<channels_, outputs_>>
       \/ \E c \in CtlInputs, v \in WideVols("channel") :
             /\ channels_' = [channels_ EXCEPT ![c].volume = v]
             /\ UNCHANGED <<routes_, outputs_>>
       \/ \E o \in CtlOutputs, v \in WideVols("output") :
             /\ outputs_' = [outputs_ EXCEPT ![o].volume = v]
             /\ UNCHANGED <<routes_, channels_>>
    /\ mx' = [mx EXCEPT !.pc = "top"]
    /\ UNCHANGED file
    /\ UNCHANGED wideOthers

\* loadState of a document: the volumes are stored as they are read
WideLoad ==
    /\ file' = [kind |-> "doc", doc |-> WideDoc, from |-> << >>]
    /\ LET got == LoadState(file', routes_, channels_, outputs_)
       IN  /\ routes_' = got.routes
           /\ channels_' = got.channels
           /\ outputs_' = got.outputs
    /\ mx' = [mx EXCEPT !.pc = "top"]
    /\ UNCHANGED ctlOps
    /\ UNCHANGED wideOthers

\* the channels that are mixed into a bus, in the order of the loop
RECURSIVE MixedInto(_, _, _)
MixedInto(ch, out, anySoloed) ==
    IF ch >= MIXER_NUM_INPUTS THEN << >>
    ELSE (IF ChannelActive(channels_[ch].muted, channels_[ch].soloed, anySoloed)
             /\ RouteOpen(routes_[ch][out].enabled)
            THEN <<ch>> ELSE << >>) \o MixedInto(ch + 1, out, anySoloed)

\* outAccum[out][s] after the first n of those channels were added, and
\* whether inBuf * gainFP and the += stayed in int32_t all the way
RECURSIVE AccumAfter(_, _, _, _, _)
AccumAfter(inBuf, chs, n, out, s) ==
    IF n = 0 THEN [fits |-> TRUE, acc |-> 0]
    ELSE LET prev   == AccumAfter(inBuf, chs, n - 1, out, s)
             gainFP == GainFP(channels_[chs[n]].volume, routes_[chs[n]][out].volume)
         IN  IF ~prev.fits \/ ~FitsMul(inBuf[chs[n]][s], gainFP)
               THEN [fits |-> FALSE, acc |-> 0]
             ELSE IF ~FitsAdd(prev.acc, Scaled(inBuf[chs[n]][s], gainFP))
               THEN [fits |-> FALSE, acc |-> 0]
             ELSE [fits |-> TRUE, acc |-> prev.acc + Scaled(inBuf[chs[n]][s], gainFP)]

\* every int32_t value computed for sample s of bus out in steps 5 and 6 is
\* in range: inBuf * gainFP, outAccum after each +=, outAccum * outGainFP
SampleFits(inBuf, out, s) ==
    LET anySoloed == \E c \in Inputs : channels_[c].soloed
        chs       == MixedInto(0, out, anySoloed)
        sum       == AccumAfter(inBuf, chs, Len(chs), out, s)
    IN  /\ sum.fits
        /\ outputs_[out].muted \/ FitsMul(sum.acc, OutGainFP(outputs_[out].volume))

\* steps 1 to 6 of one iteration of mixerThreadFunc with nothing changed in
\* between; a signed overflow leaves any values in the output
WideMix ==
    /\ mx.pc = "top"
    /\ \E case \in InputCases :
          LET inBuf     == [c \in Inputs |-> Pattern(case[c + 1])]
              anySoloed == \E c \in Inputs : channels_[c].soloed
              acc       == [o \in Outputs |-> [s \in Samples |->
                               LET chs == MixedInto(0, o, anySoloed)
                               IN  AccumAfter(inBuf, chs, Len(chs), o, s).acc]]
              fits      == \A o \in Outputs, s \in Samples : SampleFits(inBuf, o, s)
          IN  \E junk \in (IF fits THEN {0} ELSE {INT16_MIN, 0, INT16_MAX}) :
                LET outOf(o) == IF fits
                                  THEN [s \in Samples |->
                                          OutSample(acc[o][s], outputs_[o].muted,
                                                    OutGainFP(outputs_[o].volume))]
                                  ELSE [s \in Samples |-> junk]
                IN  /\ mx' = [mx EXCEPT
                                !.pc = "pace",
                                !.inBuf = inBuf,
                                !.anySoloed = anySoloed,
                                !.outAccum = IF fits THEN acc
                                             ELSE [o \in Outputs |-> [s \in Samples |-> junk]],
                                !.outBuf = outOf(OUT2)]
                    /\ channels_' = [c \in Inputs |->
                                       [channels_[c] EXCEPT !.peakL = ComputePeak(inBuf[c], 0),
                                                            !.peakR = ComputePeak(inBuf[c], 1)]]
                    /\ outputs_' = [o \in Outputs |->
                                      [outputs_[o] EXCEPT !.peakL = ComputePeak(outOf(o), 0),
                                                          !.peakR = ComputePeak(outOf(o), 1)]]
    /\ UNCHANGED <<routes_, ctlOps, file>>
    /\ UNCHANGED wideOthers

\* the next iteration
WideAgain ==
    /\ mx.pc = "pace"
    /\ mx' = [mx EXCEPT !.pc = "top"]
    /\ UNCHANGED <<routes_, channels_, outputs_, ctlOps, file>>
    /\ UNCHANGED wideOthers

\* the engine as crosspad_app_init leaves it, the thread at the top of its loop
WideInit == MixInit

WideNext == WideSet \/ WideLoad \/ WideMix \/ WideAgain

SpecWide == WideInit /\ [][WideNext]_vars

(***************************************************************************)
(* loadState() called on engines in different states, with documents that  *)
(* have too few, too many and misaddressed entries.                        *)
(***************************************************************************)
\* documents with entries that address no route, channel or output: route
\* entries with in = 3, in = -1 and out = 2, a fourth channel entry, a third
\* output entry
StrayDocs ==
    LET full == SaveDoc([c \in Inputs |-> [o \in Outputs |->
                            [enabled |-> (o = OUT2), volume |-> IF c = IN2 THEN 13 ELSE 48]]],
                        [c \in Inputs |-> [NewChannel EXCEPT !.volume = 13, !.muted = (c # IN2)]],
                        [o \in Outputs |-> [NewOutput EXCEPT !.volume = 48, !.muted = (o = OUT2)]])
        r == full.routes[1]
        c == full.channels[1]
        o == full.outputs[1]
        stray(i, out) == [in |-> <<i>>, out |-> <<out>>, enabled |-> <<TRUE>>,
                          volume |-> <<JsonNum(24)>>]
    IN  { [full EXCEPT !.routes = << <<stray(MIXER_NUM_INPUTS, OUT1)>> \o r
                                     \o <<stray(IN1, MIXER_NUM_OUTPUTS)>> >>,
                       !.channels = << c \o <<[c[1] EXCEPT !.soloed = <<TRUE>>]>> >>,
                       !.outputs = << o \o <<[o[1] EXCEPT !.muted = <<TRUE>>]>> >>],
          [full EXCEPT !.routes = << <<stray(0 - 1, OUT2), stray(SYNTH, 0 - 1)>> >>,
                       !.channels = << SubSeq(c, 1, 1) >>,
                       !.outputs = << o \o o >>] }

\* the document without the entries that address nothing
Trimmed(doc) ==
    [routes   |-> IF doc.routes = Absent THEN Absent
                  ELSE << SelectSeq(doc.routes[1],
                                    LAMBDA e : /\ Or(e.in, 0) \in Inputs
                                               /\ Or(e.out, 0) \in Outputs) >>,
     channels |-> IF doc.channels = Absent THEN Absent
                  ELSE << SubSeq(doc.channels[1], 1,
                                 Min(Len(doc.channels[1]), MIXER_NUM_INPUTS)) >>,
     outputs  |-> IF doc.outputs = Absent THEN Absent
                  ELSE << SubSeq(doc.outputs[1], 1,
                                 Min(Len(doc.outputs[1]), MIXER_NUM_OUTPUTS)) >>]

\* somebody puts a document at the location, and loadState(path) is called
\* on the engine as it is
DocLoad ==
    /\ ctlOps < MaxPress
    /\ ctlOps' = ctlOps + 1
    /\ \E d \in EditedDocs \cup StrayDocs : file' = [kind |-> "doc", doc |-> d, from |-> << >>]
    /\ LET got == LoadState(file', routes_, channels_, outputs_)
       IN  /\ routes_' = got.routes
           /\ channels_' = got.channels
           /\ outputs_' = got.outputs
    /\ ctl' = [ctl EXCEPT !.did = "load", !.before = <<Control>>]
    /\ UNCHANGED persistOthers

LoadNext ==
    \/ \E padIdx \in PadSet : OnPadPress(padIdx)
    \/ DocLoad

SpecLoad == PadsInit /\ [][LoadNext]_vars

(***************************************************************************)
(* The mixing thread started on an engine with a soloed channel.           *)
(***************************************************************************)
\* loadState() has read a document with IN1 and SYNTH routed to OUT1 and
\* IN1 soloed; start() has launched the thread
SoloInit ==
    /\ buffer_ = << >>
    /\ capacity_ = 0
    /\ head_ = 0
    /\ tail_ = 0
    /\ accepted = << >>
    /\ delivered = << >>
    /\ last = Call("new", 0, 0)
    /\ log = << >>
    /\ prod = Idle
    /\ cons = Idle
    /\ routes_ = [c \in Inputs |-> [o \in Outputs |->
                    [enabled |-> (o = OUT1 /\ c # IN2), volume |-> VolOne]]]
    /\ \E c \in {IN1, SYNTH} :
          channels_ = [d \in Inputs |-> [NewChannel EXCEPT !.soloed = (d = c)]]
    /\ outputs_ = [o \in Outputs |-> NewOutput]
    /\ running_ = TRUE
    /\ sinkOpen = [o \in Outputs |-> o = OUT1]
    /\ mx = [NoThread EXCEPT !.pc = "top"]
    /\ obs = NoObs
    /\ ctlOps = 0
    /\ AroundNew

SpecSolo == SoloInit /\ [][MixNext]_vars

(***************************************************************************)
(* The capture device of IN1 disconnected or switched from the jack panel  *)
(* while the mixing thread reads it.  PcAudioInput::read is followed step  *)
(* by step: the streamOpen_ test, available(), then the loads, the copies  *)
(* and the store of the ring's read().  The device comes back with the     *)
(* buffer size it had.                                                     *)
(***************************************************************************)
switchOthers == <<log, prod, routes_, channels_, outputs_, running_, sinkOpen, mx, obs,
                  lifeVars, file>>

\* the jack panel's thread is outside the device-select callback
NoPanel == [pc |-> "idle", then |-> "none"]

\* PcAudioInput::read: if (!streamOpen_) return 0;
RdCheck ==
    /\ cons.pc = "idle"
    /\ IF capture.open
         THEN /\ cons' = [Idle EXCEPT !.pc = "avail"]
              /\ UNCHANGED last
         ELSE /\ last' = Call("read", 2 * ChunkFrames, 0)
              /\ UNCHANGED cons
    /\ UNCHANGED <<buffer_, capacity_, head_, tail_, accepted, delivered, capture, ctl, ctlOps>>
    /\ UNCHANGED switchOthers

\* PcAudioInput::read: avail = inputRing_.available() & ~size_t(1);
\* if (sampleCount > avail) sampleCount = avail; inputRing_.read(..., sampleCount) is entered
RdAvail ==
    /\ cons.pc = "avail"
    /\ LET avail == available - (available % 2)
           count == Min(2 * ChunkFrames, avail)
       IN  cons' = [cons EXCEPT !.pc = "loadTail", !.count = count, !.data = DstData(count)]
    /\ UNCHANGED <<buffer_, capacity_, head_, tail_, accepted, delivered, last, capture, ctl,
                   ctlOps>>
    /\ UNCHANGED switchOthers

\* the device-select callback of AUDIO_IN1: end() for "(None)", switchDevice()
\* for a device; end() starts: stopStream, closeStream, streamOpen_ = false
PanelSelect ==
    /\ ctl.pc = "idle"
    /\ ctlOps < MaxPress
    /\ ctlOps' = ctlOps + 1
    /\ \E then \in {"none", "begin"} : ctl' = [pc |-> "reset", then |-> then]
    /\ capture' = [capture EXCEPT !.open = FALSE]
    /\ UNCHANGED <<buffer_, capacity_, head_, tail_, accepted, delivered, last, cons>>
    /\ UNCHANGED switchOthers

\* end() goes on: rtAudio_.reset(); inputRing_.reset()
PanelReset ==
    /\ ctl.pc = "reset"
    /\ Reset
    /\ capture' = [capture EXCEPT !.frames = {}]
    /\ ctl' = IF ctl.then = "begin" THEN [ctl EXCEPT !.pc = "resize"] ELSE NoPanel
    /\ UNCHANGED <<cons, ctlOps>>
    /\ UNCHANGED switchOthers

\* begin(): no usable device and return false, or inputRing_.resize(bufferFrames_ * 2 * 8)
PanelResize ==
    /\ ctl.pc = "resize"
    /\ \E found \in BOOLEAN :
          IF found
            THEN /\ Resize(InCap)
                 /\ ctl' = [ctl EXCEPT !.pc = "open"]
            ELSE /\ ctl' = NoPanel
                 /\ UNCHANGED <<buffer_, capacity_, head_, tail_, accepted, delivered, last>>
    /\ UNCHANGED <<cons, ctlOps, capture>>
    /\ UNCHANGED switchOthers

\* begin(): openStream, streamOpen_ = true, startStream; a failure of either
\* call leaves the stream closed
PanelOpen ==
    /\ ctl.pc = "open"
    /\ \E ok \in BOOLEAN : capture' = [capture EXCEPT !.open = ok]
    /\ ctl' = NoPanel
    /\ UNCHANGED <<buffer_, capacity_, head_, tail_, accepted, delivered, last, cons, ctlOps>>
    /\ UNCHANGED switchOthers

\* the capture device is open with its ring sized and empty; the mixing
\* thread is between two reads, the jack panel is untouched
SwitchInit ==
    /\ capture = [NoCapture EXCEPT !.present = TRUE, !.open = TRUE]
    /\ capacity_ = InCap
    /\ buffer_ = [k \in 0..(InCap - 1) |-> 0]
    /\ head_ = 0
    /\ tail_ = 0
    /\ accepted = << >>
    /\ delivered = << >>
    /\ last = Call("new", 0, 0)
    /\ log = << >>
    /\ prod = Idle
    /\ cons = Idle
    /\ routes_ = [c \in Inputs |-> [o \in Outputs |-> NewRoute]]
    /\ channels_ = [c \in Inputs |-> NewChannel]
    /\ outputs_ = [o \in Outputs |-> NewOutput]
    /\ running_ = TRUE
    /\ sinkOpen = [o \in Outputs |-> FALSE]
    /\ mx = [NoThread EXCEPT !.pc = "top"]
    /\ obs = NoObs
    /\ ctlOps = 0
    /\ threads = [t \in ThreadIds |-> NoMixThread]
    /\ caller = [c \in Callers |-> NoCall]
    /\ sunk = [o \in Outputs |-> NoFrame]
    /\ sinkFull = [o \in Outputs |-> FALSE]
    /\ counts = [start |-> 0, stop |-> 0, close |-> 0]
    /\ file = NoFile
    /\ ctl = NoPanel

SwitchNext ==
    \/ CapCallback
    \/ RdCheck
    \/ RdAvail
    \/ CLoadTail
    \/ CLoadHead
    \/ CCopy
    \/ CStore
    \/ PanelSelect
    \/ PanelReset
    \/ PanelResize
    \/ PanelOpen

SpecSwitch == SwitchInit /\ [][SwitchNext]_vars

Init == RingInit

Next ==
    \/ DoResize
    \/ DoReset
    \/ DoWrite
    \/ DoRead

Spec == Init /\ [][Next]_vars

(***************************************************************************)
(* Ring buffer, sequential use.                                            *)
(***************************************************************************)

\* C1: on a buffer of capacity >= 2, what read() has handed out so far is a
\* prefix of what write() has accepted so far: same order, nothing lost,
\* duplicated or corrupted, also when a call crosses the wrap boundary.
C1_ReadIsPrefixOfWritten ==
    capacity_ >= 2 => IsPrefix(delivered, accepted)

\* C2: write returns min(count, capacity-1-available()) and moves head_ by
\* that amount, read returns min(count, available()) and moves tail_ by that
\* amount; a call moves nothing else, never transfers more than asked or
\* more than fits, and on capacity 0 both return 0 and change nothing.
C2_ReturnAndAdvance ==
    [][LET cap   == capacity_
           avail == IF cap = 0 THEN 0 ELSE (head_ - tail_ + cap) % cap
       IN  /\ last'.op = "write" =>
                /\ last'.ret = (IF cap = 0 THEN 0 ELSE Min(last'.count, cap - 1 - avail))
                /\ last'.ret <= last'.count
                /\ head_' = head_ + last'.ret
                /\ tail_' = tail_
                /\ Len(accepted') = Len(accepted) + last'.ret
                /\ cap = 0 => buffer_' = buffer_
           /\ last'.op = "read" =>
                /\ last'.ret = (IF cap = 0 THEN 0 ELSE Min(last'.count, avail))
                /\ last'.ret <= last'.count
                /\ tail_' = tail_ + last'.ret
                /\ head_' = head_
                /\ buffer_' = buffer_
                /\ Len(delivered') = Len(delivered) + last'.ret
      ]_vars

\* a write that crossed the wrap boundary and was cut short by the full buffer
C2_Witness ==
    /\ last.op = "write" /\ last.ret > 0 /\ last.ret < last.count
    /\ (last.head % capacity_) + last.ret > capacity_

\* C3: between operations on a buffer of capacity >= 1,
\* available() + space() = capacity - 1 and 0 <= head - tail <= capacity - 1.
C3_CapacityInvariant ==
    capacity_ >= 1 =>
        /\ available + space = capacity_ - 1
        /\ available = head_ - tail_
        /\ 0 <= head_ - tail_
        /\ head_ - tail_ <= capacity_ - 1

\* a full buffer whose positions have passed the wrap boundary
C3_Witness ==
    /\ capacity_ >= 2
    /\ head_ - tail_ = capacity_ - 1
    /\ tail_ > 0
    /\ head_ > capacity_

\* C4: on a freshly resized buffer of capacity C, a write of N elements
\* returns min(N, C-1), a write that follows on the full buffer returns 0,
\* and a read of that many elements then returns the first min(N, C-1)
\* written elements in their order.
C4_RoundTrip ==
    LET C == log[1].count
        N == log[2].count
        K == Min(N, C - 1)
    IN  /\ Len(log) >= 2 => log[2].ret = K
        /\ (Len(log) >= 3 /\ K = C - 1) => log[3].ret = 0
        /\ (Len(log) = 4 /\ log[4].count = K) =>
               /\ log[4].ret = K
               /\ log[4].data = SubSeq(log[2].data, 1, K)

\* capacity 8, 10 elements offered: 7 written, 0 on the retry, 7 read back
C4_Witness ==
    /\ Len(log) = 4
    /\ log[1].count = 8
    /\ log[2].count = 10 /\ log[2].ret = 7
    /\ log[3].count > 0 /\ log[3].ret = 0
    /\ log[4].count = 7 /\ log[4].data = <<1, 2, 3, 4, 5, 6, 7>>

(***************************************************************************)
(* Ring buffer, producer and consumer running concurrently.                *)
(***************************************************************************)
\* the slots of a write() that has settled its count and not yet stored head_
PBusy == IF prod.pc = "copy" THEN {PSlot(i) : i \in 0..(prod.n - 1)} ELSE {}

\* the slots a read() that has settled its count and not yet stored tail_
\* has copied or will copy from
CBusy == IF cons.pc = "copy" THEN {CSlot(i) : i \in 0..(cons.n - 1)} ELSE {}

\* the consumer's next copy does not take a slot of an unfinished write, the
\* producer's next copy does not hit a slot of an unfinished read
NoSlotRace ==
    /\ (cons.pc = "copy" /\ cons.i < cons.n) => CSlot(cons.i) \notin PBusy
    /\ (prod.pc = "copy" /\ prod.i < prod.n) => PSlot(prod.i) \notin CBusy

\* C5: with one producer in write and one consumer in read, each element
\* copy and each position store a separate step: the consumer never copies
\* from a slot the producer has not finished writing, the producer never
\* overwrites a slot the consumer has not finished reading, write stores only
\* head_ and read stores only tail_, each after that side's copy is complete.
C5_SpscDiscipline ==
    [][/\ NoSlotRace'
       /\ prod' # prod => (tail_' = tail_ /\ cons' = cons)
       /\ cons' # cons => (head_' = head_ /\ buffer_' = buffer_ /\ prod' = prod)
       /\ head_' # head_ => (prod.pc = "copy" /\ prod.i = prod.n)
       /\ tail_' # tail_ => (cons.pc = "copy" /\ cons.i = cons.n)
      ]_vars

(***************************************************************************)
(* Mixing engine: one chunk.                                               *)
(***************************************************************************)
RECURSIVE SumOver(_, _)
SumOver(f, S) ==
    IF S = {} THEN 0
    ELSE LET x == CHOOSE y \in S : TRUE IN f[x] + SumOver(f, S \ {x})

Silent(buf) == \A s \in Samples : buf[s] = 0

\* the mixing of the current chunk is over and no control call came in between
MixedUndisturbed ==
    /\ mx.pc \in {"out", "write", "pace"}
    /\ obs.mixed = Inputs
    /\ ~obs.dirty

\* C6: a channel whose muted flag is set when the mixing thread reads it adds
\* zero to every bus, whatever its volume, solo flag and routes; a bus fed
\* only by muted (or silent) channels has peak 0.
C6_MuteDominance ==
    /\ \A c \in obs.mixed :
          obs.saw[c].muted => \A o \in Outputs : Silent(obs.add[c][o])
    /\ \A o \in obs.outDone :
          (\A c \in Inputs : obs.saw[c].muted \/ Silent(mx.inBuf[c])) =>
              (outputs_[o].peakL = 0 /\ outputs_[o].peakR = 0 /\ Silent(obs.outBuf[o]))

\* route IN1->OUT1 enabled, IN1 muted with a volume other than 1.0, IN1 the
\* only signal: OUT1 peak 0
C6_Witness ==
    /\ OUT1 \in obs.outDone
    /\ obs.saw[IN1].muted /\ obs.saw[IN1].enabled[OUT1]
    /\ obs.saw[IN1].chVol # VolOne
    /\ ~Silent(mx.inBuf[IN1]) /\ Silent(mx.inBuf[IN2]) /\ Silent(mx.inBuf[SYNTH])
    /\ ~obs.outSaw[OUT1].muted
    /\ outputs_[OUT1].peakL = 0 /\ outputs_[OUT1].peakR = 0

\* C7: in a chunk processed while no control call changes the state,
\* isAnySoloed() is true exactly when some channel has soloed = true; then
\* every channel with soloed = false adds zero to every bus, and every
\* channel with soloed = true and muted = false adds, through each enabled
\* route, what it adds when no solo is active.
C7_SoloExclusivity ==
    MixedUndisturbed =>
        LET any == \E c \in Inputs : channels_[c].soloed
        IN  /\ mx.anySoloed = any
            /\ any =>
                 \A c \in Inputs, o \in Outputs :
                    /\ ~channels_[c].soloed => Silent(obs.add[c][o])
                    /\ (channels_[c].soloed /\ ~channels_[c].muted) =>
                          obs.add[c][o] =
                             IF routes_[c][o].enabled
                               THEN [s \in Samples |->
                                       (mx.inBuf[c][s]
                                          * Trunc(channels_[c].volume * routes_[c][o].volume * 256,
                                                  VolOne * VolOne)) \div 256]
                               ELSE ZeroBuf

\* SYNTH->OUT1 and IN1->OUT1 enabled, SYNTH soloed, signal on both: OUT1
\* carries the synth alone
C7_Witness ==
    /\ MixedUndisturbed
    /\ mx.pc = "pace"
    /\ routes_[SYNTH][OUT1].enabled /\ routes_[IN1][OUT1].enabled
    /\ channels_[SYNTH].soloed /\ ~channels_[IN1].soloed /\ ~channels_[IN1].muted
    /\ ~Silent(mx.inBuf[IN1]) /\ ~Silent(mx.inBuf[SYNTH])
    /\ Silent(obs.add[IN1][OUT1])
    /\ ~Silent(obs.add[SYNTH][OUT1])
    /\ obs.outBuf[OUT1] = mx.inBuf[SYNTH]

\* C8: a route whose enabled flag is false when the mixing thread reads it
\* adds zero from its channel to its bus, whatever the route volume, also for
\* an unmuted channel with no solo active; a bus with no enabled route stays
\* silent.
C8_RouteGating ==
    /\ \A c \in obs.mixed, o \in Outputs :
          ~obs.saw[c].enabled[o] => Silent(obs.add[c][o])
    /\ \A o \in obs.outDone :
          (\A c \in Inputs : ~obs.saw[c].enabled[o]) =>
              (Silent(obs.outBuf[o]) /\ outputs_[o].peakL = 0 /\ outputs_[o].peakR = 0)

\* an unmuted channel, no solo, a signal, its route to OUT1 enabled and adding,
\* its route to OUT2 disabled with a volume other than 1.0 and adding nothing
C8_Witness ==
    /\ OUT2 \in obs.outDone
    /\ ~mx.anySoloed
    /\ \E c \in Inputs :
          /\ ~obs.saw[c].muted
          /\ ~Silent(mx.inBuf[c])
          /\ obs.saw[c].enabled[OUT1] /\ ~Silent(obs.add[c][OUT1])
          /\ ~obs.saw[c].enabled[OUT2] /\ obs.saw[c].routeVol[OUT2] # VolOne
          /\ Silent(obs.add[c][OUT2])
    /\ \A c \in Inputs : ~obs.saw[c].enabled[OUT2]
    /\ outputs_[OUT2].peakL = 0

\* the channels that, by what the thread read, are unmuted, pass the solo
\* rule and have their route to bus o enabled
Feeding(o) ==
    {c \in Inputs : /\ ~obs.saw[c].muted
                    /\ (mx.anySoloed => obs.saw[c].solo)
                    /\ obs.saw[c].enabled[o]}

\* clamp16( (SUM of (in * trunc(chVol*routeVol*256)) >> 8) * trunc(outVol*256) >> 8 )
Composed(o, s) ==
    LET part == [c \in Inputs |->
                   (mx.inBuf[c][s]
                      * Trunc(obs.saw[c].chVol * obs.saw[c].routeVol[o] * 256, VolOne * VolOne))
                   \div 256]
        mixed == SumOver(part, Feeding(o))
        y     == (mixed * Trunc(obs.outSaw[o].volume * 256, VolOne)) \div 256
    IN  IF y > 32767 THEN 32767 ELSE IF y < -32768 THEN -32768 ELSE y

C10_InputPeaks ==
    mx.pc \in {"solo", "mix", "out", "write", "pace"} =>
        \A c \in Inputs :
            LET mag(v) == IF v < 0 THEN -v ELSE v
                maxL == SetMax({mag(mx.inBuf[c][2 * f]) : f \in 0..(ChunkFrames - 1)})
                maxR == SetMax({mag(mx.inBuf[c][2 * f + 1]) : f \in 0..(ChunkFrames - 1)})
            IN  /\ channels_[c].peakL = maxL
                /\ channels_[c].peakR = maxR
                /\ channels_[c].peakL >= 0
                /\ channels_[c].peakR >= 0

(***************************************************************************)
(* start(), stop() and the delivery to the sinks.                          *)
(***************************************************************************)
InLoop(t) == threads[t].pc \in {"top", "out", "write", "pace"}

Launched == {t \in ThreadIds : threads[t].pc # "none"}

\* C11: the engine is Stopped initially; start() on a Running engine and
\* stop() on a Stopped engine return without changing the running flag or the
\* mixing threads; start() on a Stopped engine goes on to set the running
\* flag and then launches exactly one mixing thread.
C11_StartStopIdempotent ==
    /\ ~running_ /\ Launched = {}
    /\ [][ /\ (counts'.start = counts.start + 1) =>
                IF running_
                  THEN /\ running_' /\ threads' = threads
                       /\ \A c \in Callers : caller'[c].pc = caller[c].pc
                  ELSE \E c \in Callers : caller[c].pc = "idle" /\ caller'[c].pc = "start_store"
           /\ (counts'.stop = counts.stop + 1) =>
                IF ~running_
                  THEN /\ ~running_' /\ threads' = threads
                       /\ \A c \in Callers : caller'[c].pc = caller[c].pc
                  ELSE \E c \in Callers : caller[c].pc = "idle" /\ caller'[c].pc = "stop_store"
           /\ \A c \in Callers :
                /\ (caller[c].pc = "start_store" /\ caller'[c].pc # "start_store") =>
                      (running_' /\ threads' = threads /\ caller'[c].pc = "start_spawn")
                /\ (caller[c].pc = "start_spawn" /\ caller'[c].pc # "start_spawn") =>
                      /\ Cardinality({t \in ThreadIds : threads'[t] # threads[t]}) = 1
                      /\ \A t \in ThreadIds : threads'[t] # threads[t] =>
                            (~InLoop(t) /\ threads'[t].pc = "top")
                      /\ running_' = running_
         ]_vars

\* one start() launched the thread, a second start() found the engine Running
\* and returned at once
C11_Witness ==
    /\ counts.start = 2 /\ counts.stop = 0
    /\ \A c \in Callers : caller[c].pc = "idle"
    /\ running_
    /\ Cardinality(Launched) = 1

\* C12: whatever the interleaving of start(), stop() and the mixing threads,
\* at most one mixing thread is inside the mixing loop.
C12_OneMixingThread == Cardinality({t \in ThreadIds : InLoop(t)}) <= 1

\* C13: once the running flag is cleared, every mixing thread leaves its loop
\* and terminates, unless the flag is set again; a sink that accepts nothing
\* does not prevent it.
C13_StopTerminates ==
    (~running_) ~> (running_ \/ \A t \in ThreadIds : ~InLoop(t))

\* a thread has terminated that left the write loop with frames undelivered,
\* after the open sink had accepted none
C13_Witness ==
    /\ ~running_
    /\ \E t \in ThreadIds :
          /\ threads[t].pc = "exited"
          /\ threads[t].remaining > 0
          /\ threads[t].stalled
    /\ sinkOpen[OUT1] /\ sinkFull[OUT1]

\* frame b is the one that comes after frame a in the sequence of chunks
Follows(a, b) ==
    IF a = NoFrame \/ a[2] = ChunkFrames - 1 THEN b[2] = 0 ELSE b = <<a[1], a[2] + 1>>

\* C14: while the engine is Running and the sink of a bus stays open, the
\* frames the sink accepts are the frames of the bus's successive chunks, in
\* order, without gap or repetition: what a write call delivers starts
\* right after the last frame accepted before; a retry starts where the
\* partial write ended, and the retry loop is left only with the chunk
\* delivered in full.
C14_SinkGetsChunksInOrder ==
    [][ (counts.stop = 0 /\ counts.close = 0) =>
          \A t \in ThreadIds :
             LET th == threads[t]
                 o  == th.out
             IN  (th.pc = "write" /\ threads'[t] # th) =>
                    /\ th.offset + th.remaining = ChunkFrames
                    /\ sunk'[o] # sunk[o] =>
                          /\ Follows(sunk[o], <<t, th.offset>>)
                          /\ sunk'[o] = <<t, threads'[t].offset - 1>>
                    /\ threads'[t].pc # "write" => threads'[t].remaining = 0
      ]_vars

\* C15: a mixing thread that is in the retry loop of a bus when the sink of
\* that bus is closed leaves the loop.
C15_ClosedSinkNeverHolds ==
    \A t \in ThreadIds :
        (threads[t].pc = "write" /\ ~sinkOpen[threads[t].out]) ~> (threads[t].pc # "write")

LoadFallback ==
    (ctl.did \in {"load", "restart"} /\ file.kind # "doc") => Control = DefaultControl

LoadedFlag(member, field) ==
    IF member = Absent THEN field = FALSE ELSE field = member[1]
LoadedVolume(member, field) ==
    IF member = Absent THEN field = VolOne ELSE field = NumValue(member[1])

\* C19: after loadState of a readable, parsable document, for every route,
\* channel and output entry of the document the engine's volume is 1.0 if the
\* entry has no volume and its enabled, muted or soloed is false if the entry
\* lacks it, while each field the entry has holds the document's value.
C19_FieldDefaults ==
    (ctl.did \in {"load", "restart"} /\ file.kind = "doc") =>
        /\ file.doc.routes # Absent =>
             \A k \in 1..Len(file.doc.routes[1]) :
                LET e == file.doc.routes[1][k]
                IN  /\ LoadedFlag(e.enabled, routes_[e.in[1]][e.out[1]].enabled)
                    /\ LoadedVolume(e.volume, routes_[e.in[1]][e.out[1]].volume)
        /\ file.doc.channels # Absent =>
             \A k \in 1..Len(file.doc.channels[1]) :
                LET e == file.doc.channels[1][k]
                IN  /\ LoadedVolume(e.volume, channels_[k - 1].volume)
                    /\ LoadedFlag(e.muted, channels_[k - 1].muted)
                    /\ LoadedFlag(e.soloed, channels_[k - 1].soloed)
        /\ file.doc.outputs # Absent =>
             \A k \in 1..Len(file.doc.outputs[1]) :
                LET e == file.doc.outputs[1][k]
                IN  /\ LoadedVolume(e.volume, outputs_[k - 1].volume)
                    /\ LoadedFlag(e.muted, outputs_[k - 1].muted)

\* a document whose SYNTH channel entry has soloed but no volume, and whose
\* second route entry has neither enabled nor volume, was loaded into an
\* engine that two control changes had moved away from the defaults
C19_Witness ==
    /\ ctl.did = "load" /\ file.kind = "doc" /\ file.from = << >>
    /\ ctlOps = 2
    /\ file.doc.channels # Absent /\ Len(file.doc.channels[1]) = 3
    /\ file.doc.channels[1][3].volume = Absent
    /\ file.doc.channels[1][3].soloed = <<TRUE>>
    /\ channels_[SYNTH].volume = VolOne /\ channels_[SYNTH].soloed
    /\ file.doc.routes[1][2].enabled = Absent /\ file.doc.routes[1][2].volume = Absent
    /\ ~routes_[IN1][OUT2].enabled /\ routes_[IN1][OUT2].volume = VolOne
    /\ routes_[IN1][OUT1].enabled /\ routes_[IN1][OUT1].volume = 13

\* C20: once every control-surface change (pad press or GUI callback) has
\* returned, the last snapshot persisted equals the engine's control state,
\* for every interleaving of changes made from different threads.
C20_SnapshotIsCurrent ==
    (/\ \A t \in CtlThreads : ctl.th[t].pc = "idle"
     /\ ctl.did = "save")
        => file.kind = "doc" /\ file.from = <<Control>>

(***************************************************************************)
(* The mixer pads.                                                         *)
(***************************************************************************)
\* the control state with one flag of the documented pad layout flipped
PadLayout(C, k) ==
    IF k \in 0..2 THEN [C EXCEPT !.channels[k].muted = ~C.channels[k].muted]
    ELSE IF k \in 4..6 THEN [C EXCEPT !.channels[k - 4].soloed = ~C.channels[k - 4].soloed]
    ELSE IF k \in 8..10 THEN [C EXCEPT !.routes[k - 8][OUT1].enabled = ~C.routes[k - 8][OUT1].enabled]
    ELSE IF k = 11 THEN [C EXCEPT !.outputs[OUT1].muted = ~C.outputs[OUT1].muted]
    ELSE IF k \in 12..14 THEN [C EXCEPT !.routes[k - 12][OUT2].enabled = ~C.routes[k - 12][OUT2].enabled]
    ELSE IF k = 15 THEN [C EXCEPT !.outputs[OUT2].muted = ~C.outputs[OUT2].muted]
    ELSE C

\* C21: after a press of pad k the control state is the one before the press
\* with exactly the flag documented for k flipped (none for pads 3, 7 and
\* indices from 16 on), and a second press of the same pad gives back the
\* state before the first.
C21_PadTogglesItsControl ==
    ctl.did = "press" =>
        /\ Control = PadLayout(ctl.before[1], ctl.pad)
        /\ ctl.twice => Control = ctl.before2[1]

\* pad 15 was pressed twice in a row: OUT2 is unmuted again, and it was muted
\* in between
C21_Witness ==
    /\ ctl.did = "press" /\ ctl.pad = 15 /\ ctl.twice
    /\ ~outputs_[OUT2].muted
    /\ ctl.before[1].outputs[OUT2].muted
    /\ Control = ctl.before2[1]

(***************************************************************************)
(* The output stage.                                                       *)
(***************************************************************************)
\* the largest magnitude on one side (0 = L, 1 = R) of a chunk
MaxMagnitude(buf, side) ==
    SetMax({IF buf[2 * f + side] < 0 THEN 0 - buf[2 * f + side] ELSE buf[2 * f + side] :
               f \in 0..(ChunkFrames - 1)})

\* C22: once the output stage of a bus has run in a chunk, if it saw the bus
\* muted then every sample for the sink is 0 and peakL = peakR = 0, and if it
\* saw it unmuted then peakL and peakR are the largest magnitudes of the
\* samples after output gain and clamping.
C22_OutputStage ==
    \A o \in obs.outDone :
        IF obs.outSaw[o].muted
          THEN /\ \A s \in Samples : obs.outBuf[o][s] = 0
               /\ outputs_[o].peakL = 0 /\ outputs_[o].peakR = 0
          ELSE /\ outputs_[o].peakL = MaxMagnitude(obs.outBuf[o], 0)
               /\ outputs_[o].peakR = MaxMagnitude(obs.outBuf[o], 1)

(***************************************************************************)
(* The width of the accumulators.                                          *)
(***************************************************************************)
\* C23: for the volumes the setters and loadState store and every int16
\* input sample, each value computed in the mix of a chunk (sample * gainFP,
\* the sum of a bus after each addition, the sum * outGainFP) lies in the
\* signed 32-bit range.
C23_AccumulatorsWideEnough ==
    mx.pc = "pace" =>
        \A o \in Outputs, s \in Samples : SampleFits(mx.inBuf, o, s)

(***************************************************************************)
(* loadState() and the shape of the document.                              *)
(***************************************************************************)
\* loadState(document) applied to an engine with control state C
LoadedOver(C, doc) ==
    LET got == LoadState([kind |-> "doc", doc |-> doc], C.routes, C.channels, C.outputs)
    IN  ControlOf(got.routes, got.channels, got.outputs)

\* C24: loadState of a parsable document keeps the matrix as it is, routes
\* 3 x 2, channels 3, outputs 2, and leaves the engine as the same document
\* without its misaddressed entries would: a route entry whose in or out is
\* out of range, a channel entry after the third and an output entry after
\* the second change nothing.
C24_IndicesValid ==
    (ctl.did = "load" /\ file.kind = "doc") =>
        /\ DOMAIN routes_ = Inputs
        /\ \A c \in Inputs : DOMAIN routes_[c] = Outputs
        /\ DOMAIN channels_ = Inputs
        /\ DOMAIN outputs_ = Outputs
        /\ Control = LoadedOver(ctl.before[1], Trimmed(file.doc))

\* the first of the documents with misaddressed entries was loaded: its
\* fourth channel entry has soloed and its third output entry has muted, and
\* IN1 is not soloed and OUT1 not muted
C24_Witness ==
    /\ ctl.did = "load" /\ file.kind = "doc"
    /\ file.doc.channels # Absent /\ Len(file.doc.channels[1]) = 4
    /\ file.doc.channels[1][4].soloed = <<TRUE>>
    /\ Len(file.doc.routes[1]) = 8
    /\ Trimmed(file.doc) # file.doc
    /\ ~channels_[IN1].soloed /\ ~outputs_[OUT1].muted
    /\ ctl.before[1] # Control

\* the control state of an engine as it is constructed
FreshControl ==
    ControlOf([c \in Inputs |-> [o \in Outputs |-> NewRoute]],
              [c \in Inputs |-> NewChannel], [o \in Outputs |-> NewOutput])

\* C27: the control state after loadState of a readable, parsable document
\* depends on the document alone: it is what the same document gives in a
\* freshly constructed engine, whatever the engine held before, also for a
\* document without the routes, channels or outputs array or with fewer
\* entries than the engine has.
C27_LoadDependsOnDocumentOnly ==
    (ctl.did = "load" /\ file.kind = "doc") =>
        Control = LoadedOver(FreshControl, file.doc)

(***************************************************************************)
(* Solo while the control threads are at work.                             *)
(***************************************************************************)
\* C25: in every chunk, whatever setChannelSolo calls run beside the mixing
\* thread, the channels that pass the mute and solo test are those that one
\* value of the three soloed flags selects (with the mute flags the thread
\* read); the flags' values are not even restricted to those the chunk saw.
\* So no chunk silences every unmuted channel when the only solo is cleared.
C25_SoloFromOneSnapshot ==
    (mx.pc \in {"out", "write", "pace"} /\ obs.mixed = Inputs) =>
        \E v \in [Inputs -> BOOLEAN] :
            \A c \in Inputs :
                ChannelActive(obs.saw[c].muted, obs.saw[c].solo, mx.anySoloed)
                    <=> (~obs.saw[c].muted /\ ((\E d \in Inputs : v[d]) => v[c]))

(***************************************************************************)
(* Stereo frames through the capture ring.                                 *)
(***************************************************************************)
\* C26: the capture ring always holds an even number of samples, and every
\* frame a read hands to the mixing thread is the L and the R of one frame
\* the callback gave, also after a callback that met a nearly full ring.
C26_FramesStayAligned ==
    /\ (head_ - tail_) % 2 = 0
    /\ last.op = "read" =>
          \A f \in 0..(capture.got - 1) : (capture.from + 2 * f + 1) \in capture.frames

(***************************************************************************)
(* What stop() leaves behind.                                              *)
(***************************************************************************)
\* C28: when stop() has set the flag and returned, and nobody is inside
\* start() or stop(), no mixing thread is in its loop any more: none will
\* read the flag, store a peak or write to a sink after that.
C28_StopLeavesNoThread ==
    (~running_ /\ \A c \in Callers : caller[c].pc = "idle")
        => \A t \in ThreadIds : ~InLoop(t)

\* C29: while the engine is Running, a mixing thread that is inside a chunk
\* iteration completes it (it reaches the pacing sleep at the end of the
\* iteration), whatever the sinks do: a sink that is open and accepts no
\* frames does not keep the thread from the next bus and the next chunk.
C29_IterationsComplete ==
    \A t \in ThreadIds :
        (InLoop(t) /\ running_) ~> (threads[t].pc = "pace" \/ ~running_)

(***************************************************************************)
(* Disconnecting or switching a device under the mixing thread.            *)
(***************************************************************************)
\* the jack panel's thread resets or resizes the ring in this step
RingReinit ==
    \/ ctl.pc = "reset" /\ ctl'.pc # "reset"
    \/ ctl.pc = "resize" /\ ctl'.pc = "open"

\* C30: the ring of a device is never reset or resized while the mixing
\* thread is inside a PcAudioInput::read that has passed its streamOpen_
\* check: when end() or switchDevice() touches the ring, the reader is
\* outside read().
C30_NoReinitUnderReader == [][RingReinit => cons.pc = "idle"]_vars

====
